---- MODULE Spec2Model ----
(***************************************************************************)
(* Decision core of curiefense: the decision merger (merge_decisions,      *)
(* stronger_decision, the priority tables) of interface/mod.rs and the     *)
(* global filter evaluator (check_entry, check_relation, tag_request) of   *)
(* tagging.rs.                                                             *)
(*                                                                         *)
(* The functions are pure.  A state records one invocation: the function   *)
(* called, its arguments and what it returned.  tag_request is a loop and  *)
(* is modelled one section per step.                                       *)
(***************************************************************************)
EXTENDS Integers, Sequences, FiniteSets, Bags, TLC

VARIABLES
    call,       \* the function of the invocation this state records
    d1,         \* first argument of merge_decisions / stronger_decision
    d2,         \* second argument
    kept,       \* the decision returned
    folded,     \* bag of the reasons of every decision folded into kept so far
    pc,         \* "idle", "loop" (inside tag_request's loop) or "done"
    reqinfo,    \* the request evaluated
    tags,       \* the request's Tags
    is_human,   \* tag_request's is_human argument
    globalfilters,  \* tag_request's filter sections
    isection,   \* index of the section the loop of tag_request is at
    nmatched,   \* tag_request's count of matching sections
    checked,    \* the entry, subsection or section last checked
    mtch,       \* the MatchResult of the last check
    self,       \* the SimpleAction to_decision is called on
    precision_level,    \* to_decision's precision_level argument
    mgh,        \* to_decision's challenge capability, if any
    rawaction,  \* the RawAction resolve is called on
    waf_raw,    \* the raw profiles WafProfile::resolve is called on
    waf_out,    \* the profiles WafProfile::resolve returns, by id
    logs,       \* the errors logged, in order
    mrinfo,     \* jsonlog's request argument, if any
    rcode,      \* jsonlog's response code argument, if any
    proxy,      \* jsonlog's proxy metadata
    serfail,    \* whether the serializer fails in jsonlog_rinfo
    request_map,    \* the record jsonlog returns
    optimized,  \* the subsection check_iprange optimized
    mtch_opt,   \* the MatchResult of the optimized subsection
    matched_sections,   \* the sections that matched in tag_request's loop,
                        \* which nmatched counts
    via_merge,  \* the decision of to_decision on each side, then merge_decisions
    via_stronger,   \* the decision of stronger_decision, then to_decision
    nmerged,    \* the number of decisions merged into the one to_decision returned
    snapshot,   \* the filter sections shared by the concurrent evaluations
    evals       \* the state of each concurrent evaluation: its position, its
                \* request, its Tags, its loop index and counter, its decisions

mergeVars == <<d1, d2, kept, folded>>

tagVars == <<reqinfo, tags, is_human, globalfilters, isection, nmatched, checked, mtch>>

decisionVars == <<self, precision_level, mgh>>

configVars == <<rawaction, waf_raw, waf_out, logs>>

logVars == <<mrinfo, rcode, proxy, serfail, request_map>>

iprangeVars == <<optimized, mtch_opt>>

scanVars == <<matched_sections>>

equivVars == <<via_merge, via_stronger>>

parVars == <<snapshot, evals>>

restVars == <<equivVars, nmerged, parVars>>

-----------------------------------------------------------------------------
(* Option<T>: None is the empty set, Some(x) the singleton.                *)

None == {}

Some(x) == {x}

IsSome(o) == o # {}

Unwrap(o) == CHOOSE x \in o : TRUE

(* A HashMap is a function; its keys are its DOMAIN.                       *)
EmptyMap == <<>>

Keys(m) == DOMAIN m

(* HashMap::extend(h, t): every pair of t is inserted into h; an insert of *)
(* a key already present replaces its value.                               *)
Extend(h, t) ==
    [k \in Keys(h) \cup Keys(t) |-> IF k \in Keys(t) THEN t[k] ELSE h[k]]

-----------------------------------------------------------------------------
(* Bounds and the input sets drawn from.                                   *)

MaxReasons == 1

ReasonIds == {"r1", "r2"}

BlockReason(id, name, initiator, action) ==
    [id |-> id, name |-> name, initiator |-> initiator, action |-> action]

BlockReason_global_filter(id, name) ==
    BlockReason(id, name, "GlobalFilter", "Custom")

ReasonLists ==
    UNION {[1..n -> {BlockReason(i, "rule", "Acl", "Custom") : i \in ReasonIds}] :
              n \in 0..MaxReasons}

HeaderMaps ==
    { EmptyMap,
      [k \in {"h1"} |-> "a"],
      [k \in {"h1"} |-> "b"],
      [k \in {"h2"} |-> "a"],
      [k \in {"h1", "h2"} |-> IF k = "h1" THEN "a" ELSE "b"] }

HeaderOptions == {None} \cup {Some(h) : h \in HeaderMaps}

-----------------------------------------------------------------------------
(* interface/mod.rs: the resolved action and the decision.                 *)

ActionTypes == {"Skip", "Monitor", "Block"}

Action(atype, block_mode, status, headers, content, extra_tags) ==
    [atype |-> atype, block_mode |-> block_mode, status |-> status,
     headers |-> headers, content |-> content, extra_tags |-> extra_tags]

Action_default == Action("Block", TRUE, 503, None, "request denied", None)

Decision(maction, reasons) == [maction |-> maction, reasons |-> reasons]

Decision_pass(reasons) == Decision(None, reasons)

Decision_action(action, reasons) == Decision(Some(action), reasons)

ActionType_priority(atype) ==
    CASE atype = "Block" -> 6
      [] atype = "Monitor" -> 1
      [] atype = "Skip" -> 9

ActionType_is_blocking(atype) == atype = "Block"

Decision_is_blocking(d) ==
    IF IsSome(d.maction) THEN ActionType_is_blocking(Unwrap(d.maction).atype)
    ELSE FALSE

(* merge_kept_side with the first argument always kept.                    *)
merge_kept_side_first(a, b) == 1

(* merge_kept_side with a strict comparison: a tie keeps the second.       *)
merge_kept_side_strict(a, b) ==
    CASE IsSome(a.maction) /\ IsSome(b.maction) ->
            IF ActionType_priority(Unwrap(a.maction).atype)
                 > ActionType_priority(Unwrap(b.maction).atype)
            THEN 1 ELSE 2
      [] ~IsSome(a.maction) /\ IsSome(b.maction) -> 2
      [] OTHER -> 1

(* Which of the two decisions merge_decisions keeps: 1 or 2.               *)
merge_kept_side(a, b) ==
    CASE IsSome(a.maction) /\ IsSome(b.maction) ->
            IF ActionType_priority(Unwrap(a.maction).atype)
                 >= ActionType_priority(Unwrap(b.maction).atype)
            THEN 1 ELSE 2
      [] ~IsSome(a.maction) /\ IsSome(b.maction) -> 2
      [] OTHER -> 1

(* The headers of the kept action once the thrown decision's headers are   *)
(* merged into it (kept action Monitor only).                              *)
merge_headers(kept_headers, throw_headers) ==
    IF IsSome(kept_headers)
    THEN Some(Extend(Unwrap(kept_headers),
                     IF IsSome(throw_headers) THEN Unwrap(throw_headers)
                     ELSE EmptyMap))
    ELSE throw_headers

(* merge_decisions without its last step: the thrown reasons are lost.     *)
merge_decisions_drop(a, b) ==
    IF merge_kept_side(a, b) = 1 THEN a ELSE b

merge_decisions(a, b) ==
    LET side == merge_kept_side(a, b)
        kp == IF side = 1 THEN a ELSE b
        thrown == IF side = 1 THEN b ELSE a
        throw_headers ==
            IF IsSome(thrown.maction) THEN Unwrap(thrown.maction).headers
            ELSE None
        maction ==
            IF IsSome(kp.maction) /\ Unwrap(kp.maction).atype = "Monitor"
            THEN Some([Unwrap(kp.maction) EXCEPT
                         !.headers = merge_headers(@, throw_headers)])
            ELSE kp.maction
    IN  Decision(maction, kp.reasons \o thrown.reasons)

(* The resolved actions merge_decisions is called on: three bodies         *)
(* (block_mode, status, content) under each action type and header map.    *)
ActionBodies ==
    { <<TRUE, 503, "request denied">>,
      <<TRUE, 403, "blocked">>,
      <<FALSE, 200, "request denied">> }

Actions ==
    { Action(t, b[1], b[2], h, b[3], None) :
        t \in ActionTypes, b \in ActionBodies, h \in HeaderOptions }

Decisions ==
    { Decision(m, rs) :
        m \in {None} \cup {Some(a) : a \in Actions}, rs \in ReasonLists }

BagOfSeq(s) ==
    [x \in {s[i] : i \in DOMAIN s} |-> Cardinality({i \in DOMAIN s : s[i] = x})]

-----------------------------------------------------------------------------
(* interface/mod.rs: the declarative action and the simple decision.       *)

Skip == [t |-> "Skip"]

Monitor == [t |-> "Monitor"]

Custom(content) == [t |-> "Custom", content |-> content]

Challenge(ch_level) == [t |-> "Challenge", ch_level |-> ch_level]

GHModes == {"Passive", "Active", "Interactive"}

SimpleActionTs ==
    {Skip, Monitor} \cup {Custom(c) : c \in {"blocked", "denied"}}
        \cup {Challenge(m) : m \in GHModes}

(* The priority table with Custom and Challenge exchanged.                 *)
SimpleActionT_priority_swapped(atype) ==
    CASE atype.t = "Custom" -> 6
      [] atype.t = "Challenge" -> 8
      [] atype.t = "Monitor" -> 1
      [] atype.t = "Skip" -> 9

SimpleActionT_priority(atype) ==
    CASE atype.t = "Custom" -> 8
      [] atype.t = "Challenge" -> 6
      [] atype.t = "Monitor" -> 1
      [] atype.t = "Skip" -> 9

(* The rate limit table with Skip left at its general priority.           *)
rate_limit_priority_skip9(atype) ==
    CASE atype.t = "Custom" -> 8
      [] atype.t = "Challenge" -> 6
      [] atype.t = "Monitor" -> 1
      [] atype.t = "Skip" -> 9

rate_limit_priority(atype) ==
    CASE atype.t = "Custom" -> 8
      [] atype.t = "Challenge" -> 6
      [] atype.t = "Monitor" -> 1
      [] atype.t = "Skip" -> 0

SimpleAction(atype, headers, status, extra_tags) ==
    [atype |-> atype, headers |-> headers, status |-> status,
     extra_tags |-> extra_tags]

SimpleDecision_Pass == [kind |-> "Pass"]

SimpleDecision_Action(action, reasons) ==
    [kind |-> "Action", action |-> action, reasons |-> reasons]

(* The header templates of the first Monitor action once the second's are  *)
(* merged into it.                                                         *)
stronger_headers(h1, h2) ==
    CASE ~IsSome(h1) /\ ~IsSome(h2) -> None
      [] IsSome(h1) /\ ~IsSome(h2) -> h1
      [] ~IsSome(h1) /\ IsSome(h2) -> h2
      [] OTHER -> Some(Extend(Unwrap(h1), Unwrap(h2)))

stronger_decision(a, b) ==
    IF a.kind = "Pass" THEN b
    ELSE IF b.kind = "Pass" THEN a
    ELSE LET s1 == a.action
             s2 == b.action
             kept_reasons == a.reasons \o b.reasons
         IN  IF SimpleActionT_priority(s1.atype) > SimpleActionT_priority(s2.atype)
             THEN SimpleDecision_Action(s1, kept_reasons)
             ELSE IF s1.atype = Monitor /\ s2.atype = Monitor
             THEN SimpleDecision_Action(
                      [s1 EXCEPT !.headers = stronger_headers(s1.headers, s2.headers)],
                      kept_reasons)
             ELSE SimpleDecision_Action(s2, kept_reasons)

(* The header templates of the configured actions.                         *)
TemplateMaps ==
    { [k \in {"h1"} |-> "t1"],
      [k \in {"h1"} |-> "t2"],
      [k \in {"h2"} |-> "t1"] }

TemplateOptions == {None} \cup {Some(h) : h \in TemplateMaps}

SimpleActions ==
    { SimpleAction(t, h, st, None) :
        t \in SimpleActionTs, h \in TemplateOptions, st \in {403, 503} }

SimpleDecisions ==
    {SimpleDecision_Pass} \cup
    { SimpleDecision_Action(sa, rs) : sa \in SimpleActions, rs \in ReasonLists }

(* The decisions folded: every action type, and no action, under each list *)
(* of reasons.                                                             *)
FoldDecisions ==
    { Decision(m, rs) :
        m \in {None} \cup
              {Some(Action(t, t = "Block", 503, None, "request denied", None)) :
                  t \in ActionTypes},
        rs \in ReasonLists }

-----------------------------------------------------------------------------
(* interface/tagging.rs: Location and Tags.  A location is a tuple headed  *)
(* by its variant; Tags maps each tag to the set of locations behind it.   *)

Location_Ip == <<"Ip">>

Location_Path == <<"Path">>

Location_Uri == <<"Uri">>

Location_Request == <<"Request">>

Location_Headers == <<"Headers">>

Location_Cookies == <<"Cookies">>

Location_HeaderValue(name, value) == <<"HeaderValue", name, value>>

Location_UriArgumentValue(name, value) == <<"UriArgumentValue", name, value>>

Location_CookieValue(name, value) == <<"CookieValue", name, value>>

Tags_default == EmptyMap

Tags_get(tgs, t) == IF t \in Keys(tgs) THEN Some(tgs[t]) ELSE None

Tags_contains(tgs, t) == t \in Keys(tgs)

Tags_insert(tgs, t, loc) ==
    [k \in Keys(tgs) \cup {t} |->
        (IF k \in Keys(tgs) THEN tgs[k] ELSE {}) \cup (IF k = t THEN {loc} ELSE {})]

Tags_insert_qualified(tgs, id, value, loc) ==
    Tags_insert(tgs, id \o ":" \o value, loc)

Tags_with_locs(tgs, locs) == [k \in Keys(tgs) |-> locs]

Tags_extend(tgs, other) ==
    [k \in Keys(tgs) \cup Keys(other) |->
        (IF k \in Keys(tgs) THEN tgs[k] ELSE {})
            \cup (IF k \in Keys(other) THEN other[k] ELSE {})]

-----------------------------------------------------------------------------
(* The request snapshot read by the evaluator (utils::RequestInfo).        *)

IpAddr(fam, addr) == [fam |-> fam, addr |-> addr]

(* A network is a family and the range of addresses it contains.           *)
IpNet(fam, lo, hi) == [fam |-> fam, lo |-> lo, hi |-> hi]

net_contains(net, ip) ==
    ip.fam = net.fam /\ net.lo <= ip.addr /\ ip.addr <= net.hi

(* An IpRange is a set of networks; it contains the addresses of each.     *)
IpRange_contains(rng, ip) == \E net \in rng : net_contains(net, ip)

(* Regex::is_match on the strings of the model.                            *)
is_match(re, s) ==
    CASE re = "^curl.*" -> s \in {"curl/7.58.0"}
      [] re = ".*admin.*" -> s \in {"/admin", "/admin?lol=boo"}
      [] re = "^(GET|POST)$" -> s \in {"GET", "POST"}
      [] re = "u." -> s \in {"us", "US"}
      [] re = "b.." -> s \in {"boo", "lol=boo"}
      [] OTHER -> FALSE

(* str::to_lowercase on the strings of the model.                          *)
to_lowercase(s) ==
    CASE s = "US" -> "us"
      [] s = "CA" -> "ca"
      [] s = "LA" -> "la"
      [] OTHER -> s

ReqCurl ==
    [ ip |-> Some(IpAddr("V4", 5)), ipstr |-> "52.78.12.56",
      headers |-> [k \in {"user-agent", "accept"} |->
                      IF k = "accept" THEN "*/*" ELSE "curl/7.58.0"],
      cookies |-> EmptyMap,
      args |-> [k \in {"lol"} |-> "boo"],
      qpath |-> "/admin", query |-> "lol=boo", uri |-> "/admin?lol=boo",
      method |-> "GET", host |-> "localhost",
      country_iso |-> Some("US"), region |-> Some("CA"), subregion |-> Some("LA"),
      asn |-> Some(7), company |-> Some("acme"),
      continent_name |-> Some("NA-name"), continent_code |-> Some("NA"),
      city_name |-> Some("LA-city"), country_name |-> Some("USA") ]

ReqBrowser ==
    [ ip |-> Some(IpAddr("V6", 9)), ipstr |-> "::9",
      headers |-> [k \in {"user-agent"} |-> "mozilla"],
      cookies |-> [k \in {"sid"} |-> "abc"],
      args |-> EmptyMap,
      qpath |-> "/", query |-> "", uri |-> "/",
      method |-> "PUT", host |-> "example.com",
      country_iso |-> None, region |-> None, subregion |-> None,
      asn |-> None, company |-> None,
      continent_name |-> None, continent_code |-> None,
      city_name |-> None, country_name |-> None ]

ReqNoIp == [ReqCurl EXCEPT !.ip = None, !.headers = EmptyMap]

Requests == {ReqCurl, ReqBrowser, ReqNoIp}

-----------------------------------------------------------------------------
(* tagging.rs: the global filter evaluator.                                *)

MatchResult(matched, matching) == [matched |-> matched, matching |-> matching]

SingleEntry(exact, re) == [exact |-> exact, re |-> re]

PairEntry(key, exact, re) == [key |-> key, exact |-> exact, re |-> re]

GlobalFilterEntry(negated, kind, entry) ==
    [negated |-> negated, kind |-> kind, entry |-> entry]

check_pair(pr, field, kind) ==
    IF pr.key \in Keys(field)
    THEN LET v == field[pr.key]
         IN  IF pr.exact = v \/ (IsSome(pr.re) /\ is_match(Unwrap(pr.re), v))
             THEN Some({<<kind, pr.key, v>>})
             ELSE None
    ELSE None

check_single(pr, str, loc) ==
    IF pr.exact = str \/ (IsSome(pr.re) /\ is_match(Unwrap(pr.re), str))
    THEN Some({loc})
    ELSE None

entry_bool(loc, b) == IF b THEN Some({loc}) ELSE None

(* check_single on an optional field, lowercased first when lower is set.  *)
check_optional(pr, field, lower, loc) ==
    IF IsSome(field)
    THEN check_single(pr, IF lower THEN to_lowercase(Unwrap(field))
                          ELSE Unwrap(field), loc)
    ELSE None

(* The locations the leaf's predicate matched, None when it did not.       *)
entry_predicate(rinfo, tgs, sub) ==
    LET e == sub.entry
        k == sub.kind
    IN  CASE k = "Ip" ->
                entry_bool(Location_Ip, IsSome(rinfo.ip) /\ Unwrap(rinfo.ip) = e)
          [] k = "Network" ->
                entry_bool(Location_Ip,
                           IsSome(rinfo.ip) /\ net_contains(e, Unwrap(rinfo.ip)))
          [] k = "Range4" ->
                entry_bool(Location_Ip,
                           /\ IsSome(rinfo.ip)
                           /\ Unwrap(rinfo.ip).fam = "V4"
                           /\ IpRange_contains(e, Unwrap(rinfo.ip)))
          [] k = "Range6" ->
                entry_bool(Location_Ip,
                           /\ IsSome(rinfo.ip)
                           /\ Unwrap(rinfo.ip).fam = "V6"
                           /\ IpRange_contains(e, Unwrap(rinfo.ip)))
          [] k = "Path" -> check_single(e, rinfo.qpath, Location_Path)
          [] k = "Query" -> check_single(e, rinfo.query, Location_Path)
          [] k = "Uri" -> check_single(e, rinfo.uri, Location_Uri)
          [] k = "Country" -> check_optional(e, rinfo.country_iso, TRUE, Location_Ip)
          [] k = "Region" -> check_optional(e, rinfo.region, TRUE, Location_Ip)
          [] k = "SubRegion" -> check_optional(e, rinfo.subregion, TRUE, Location_Ip)
          [] k = "Method" -> check_single(e, rinfo.method, Location_Request)
          [] k = "Header" -> check_pair(e, rinfo.headers, "HeaderValue")
          [] k = "Args" -> check_pair(e, rinfo.args, "UriArgumentValue")
          [] k = "Cookies" -> check_pair(e, rinfo.cookies, "CookieValue")
          [] k = "Asn" ->
                entry_bool(Location_Ip, IsSome(rinfo.asn) /\ Unwrap(rinfo.asn) = e)
          [] k = "Company" -> check_optional(e, rinfo.company, FALSE, Location_Ip)
          [] k = "Authority" -> check_single(e, rinfo.host, Location_Request)
          [] k = "Tag" -> Tags_get(tgs, e.exact)

(* check_entry with the negated flag ignored.                              *)
check_entry_unnegated(rinfo, tgs, sub) ==
    LET r == entry_predicate(rinfo, tgs, sub)
    IN  IF IsSome(r) THEN MatchResult(Unwrap(r), TRUE)
        ELSE MatchResult({}, FALSE)

check_entry(rinfo, tgs, sub) ==
    LET r == entry_predicate(rinfo, tgs, sub)
    IN  IF IsSome(r) THEN MatchResult(Unwrap(r), ~sub.negated)
        ELSE MatchResult({}, sub.negated)

RECURSIVE check_relation_from(_, _, _)
(* The loop of check_relation over the children's results, from the        *)
(* accumulated result acc.                                                 *)
check_relation_from(rel, results, acc) ==
    IF results = <<>> THEN acc
    ELSE LET mtch1 == Head(results)
         IN  check_relation_from(
                 rel, Tail(results),
                 MatchResult(acc.matched \cup mtch1.matched,
                             IF rel = "And" THEN acc.matching /\ mtch1.matching
                             ELSE acc.matching \/ mtch1.matching))

(* check_relation that stops at the first child deciding the outcome.      *)
check_relation_short(rel, results) ==
    IF results = <<>> THEN MatchResult({}, rel = "And")
    ELSE check_relation_from(rel, <<Head(results)>>,
                             MatchResult({}, rel = "And"))

(* check_relation on the results the checker gave for each child, in the   *)
(* order of the children.                                                  *)
check_relation(rel, results) ==
    check_relation_from(rel, results, MatchResult({}, rel = "And"))

GlobalFilterSSection(relation, entries) ==
    [relation |-> relation, entries |-> entries]

check_subsection(rinfo, tgs, sub) ==
    check_relation(sub.relation,
                   [i \in DOMAIN sub.entries |->
                       check_entry(rinfo, tgs, sub.entries[i])])

GlobalFilterSection(id, name, tgs, relation, sections, action) ==
    [id |-> id, name |-> name, tags |-> tgs, relation |-> relation,
     sections |-> sections, action |-> action]

(* Line 201 of tag_request: check_relation over a section's subsections.   *)
(* check_section that reads no tag of the request.                         *)
check_section_notags(rinfo, tgs, psection) ==
    check_relation(psection.relation,
                   [i \in DOMAIN psection.sections |->
                       check_subsection(rinfo, Tags_with_locs(Tags_default, Keys(tgs)),
                                        psection.sections[i])])

check_section(rinfo, tgs, psection) ==
    check_relation(psection.relation,
                   [i \in DOMAIN psection.sections |->
                       check_subsection(rinfo, tgs, psection.sections[i])])

RECURSIVE insert_all_qualified(_, _)
(* Tags::insert_qualified for each <<id, value, location>> of a list.      *)
insert_all_qualified(tgs, items) ==
    IF items = <<>> THEN tgs
    ELSE insert_all_qualified(
             Tags_insert_qualified(tgs, Head(items)[1], Head(items)[2],
                                   Head(items)[3]),
             Tail(items))

unwrap_or_nil(o) == IF IsSome(o) THEN Unwrap(o) ELSE "nil"

(* Lines 149-198 of tag_request: the tags set before any filter is read.   *)
baseline_tags(human, r) ==
    insert_all_qualified(
        Tags_insert(Tags_default, IF human THEN "human" ELSE "bot",
                    Location_Request),
        << <<"headers", ToString(Cardinality(Keys(r.headers))), Location_Headers>>,
           <<"cookies", ToString(Cardinality(Keys(r.cookies))), Location_Cookies>>,
           <<"args", ToString(Cardinality(Keys(r.args))), Location_Request>>,
           <<"host", r.host, Location_Request>>,
           <<"ip", r.ipstr, Location_Request>>,
           <<"geo-continent-name", unwrap_or_nil(r.continent_name), Location_Request>>,
           <<"geo-continent-code", unwrap_or_nil(r.continent_code), Location_Request>>,
           <<"geo-city", unwrap_or_nil(r.city_name), Location_Request>>,
           <<"geo-country", unwrap_or_nil(r.country_name), Location_Request>>,
           <<"geo-region", unwrap_or_nil(r.region), Location_Request>>,
           <<"geo-subregion", unwrap_or_nil(r.subregion), Location_Request>>,
           <<"geo-asn", IF IsSome(r.asn) THEN ToString(Unwrap(r.asn)) ELSE "nil",
             Location_Request>> >>)

(* tag_only when no action ever ends the scan.                             *)
tag_only_always(a, human) == a = a /\ human = human

(* tag_only with the case of a Challenge for a human forgotten.            *)
tag_only_monitor(a, human) == a.atype = Monitor /\ human = human

(* tag_only with the Monitor case forgotten.                               *)
tag_only_challenge(a, human) == a.atype.t = "Challenge" /\ human

(* Line 207 of tag_request: the matching section only tags the request.    *)
tag_only(a, human) ==
    a.atype = Monitor \/ (a.atype.t = "Challenge" /\ human)

-----------------------------------------------------------------------------
(* The filter entries, subsections and sections the checks are drawn from. *)

MaxChildren == 2

MaxSections == 2

SeqsUpTo(S, n) == UNION {[1..m -> S] : m \in 0..n}

Relations == {"And", "Or"}

EntryIp == GlobalFilterEntry(FALSE, "Ip", IpAddr("V4", 5))

EntryCurl ==
    GlobalFilterEntry(FALSE, "Header",
                      PairEntry("user-agent", "^curl.*", Some("^curl.*")))

EntryTag(t) == GlobalFilterEntry(FALSE, "Tag", SingleEntry(t, None))

Negated(e) == [e EXCEPT !.negated = TRUE]

(* One leaf of every kind that the curl request matches and one that it    *)
(* does not.                                                               *)
PlainEntries ==
    { EntryIp, EntryCurl, EntryTag("ta"), EntryTag("human"),
      GlobalFilterEntry(FALSE, "Ip", IpAddr("V4", 6)),
      GlobalFilterEntry(FALSE, "Network", IpNet("V4", 4, 7)),
      GlobalFilterEntry(FALSE, "Network", IpNet("V6", 8, 11)),
      GlobalFilterEntry(FALSE, "Range4", {IpNet("V4", 4, 7)}),
      GlobalFilterEntry(FALSE, "Range4", {IpNet("V4", 8, 11)}),
      GlobalFilterEntry(FALSE, "Range6", {IpNet("V6", 8, 11)}),
      GlobalFilterEntry(FALSE, "Range6", {IpNet("V6", 4, 7)}),
      GlobalFilterEntry(FALSE, "Path", SingleEntry(".*admin.*", Some(".*admin.*"))),
      GlobalFilterEntry(FALSE, "Path", SingleEntry("/", None)),
      GlobalFilterEntry(FALSE, "Query", SingleEntry("b..", Some("b.."))),
      GlobalFilterEntry(FALSE, "Query", SingleEntry("", None)),
      GlobalFilterEntry(FALSE, "Uri", SingleEntry("/admin?lol=boo", None)),
      GlobalFilterEntry(FALSE, "Uri", SingleEntry("/", None)),
      GlobalFilterEntry(FALSE, "Country", SingleEntry("us", None)),
      GlobalFilterEntry(FALSE, "Country", SingleEntry("US", None)),
      GlobalFilterEntry(FALSE, "Region", SingleEntry("ca", None)),
      GlobalFilterEntry(FALSE, "Region", SingleEntry("xx", None)),
      GlobalFilterEntry(FALSE, "SubRegion", SingleEntry("la", None)),
      GlobalFilterEntry(FALSE, "SubRegion", SingleEntry("xx", None)),
      GlobalFilterEntry(FALSE, "Method",
                        SingleEntry("^(GET|POST)$", Some("^(GET|POST)$"))),
      GlobalFilterEntry(FALSE, "Method", SingleEntry("PUT", None)),
      GlobalFilterEntry(FALSE, "Header", PairEntry("accept", "*/*", None)),
      GlobalFilterEntry(FALSE, "Header", PairEntry("x-missing", "1", None)),
      GlobalFilterEntry(FALSE, "Args", PairEntry("lol", "b..", Some("b.."))),
      GlobalFilterEntry(FALSE, "Args", PairEntry("lol", "bar", None)),
      GlobalFilterEntry(FALSE, "Cookies", PairEntry("sid", "abc", None)),
      GlobalFilterEntry(FALSE, "Cookies", PairEntry("sid", "xyz", None)),
      GlobalFilterEntry(FALSE, "Asn", 7),
      GlobalFilterEntry(FALSE, "Asn", 8),
      GlobalFilterEntry(FALSE, "Company", SingleEntry("acme", None)),
      GlobalFilterEntry(FALSE, "Company", SingleEntry("ACME", None)),
      GlobalFilterEntry(FALSE, "Authority", SingleEntry("localhost", None)),
      GlobalFilterEntry(FALSE, "Authority", SingleEntry("example.com", None)) }

AllEntries == PlainEntries \cup {Negated(e) : e \in PlainEntries}

(* The leaves the subsections are built from.                              *)
Entries ==
    {EntryIp, EntryCurl, EntryTag("ta")}
        \cup {Negated(e) : e \in {EntryIp, EntryCurl, EntryTag("ta")}}

Subsections ==
    { GlobalFilterSSection(rel, es) :
        rel \in Relations, es \in SeqsUpTo(Entries, MaxChildren) }

(* Subsections of at most one leaf, the children of the sections checked.  *)
UnitSubsections ==
    { GlobalFilterSSection(rel, es) :
        rel \in Relations, es \in SeqsUpTo(Entries, 1) }

RelationSections ==
    { GlobalFilterSection("gf", "filter", Tags_default, rel, ss, None) :
        rel \in Relations, ss \in SeqsUpTo(UnitSubsections, MaxChildren) }

(* The tag sets the checks run against: no tag, and the tag "ta".          *)
TagSamples ==
    { Tags_default, Tags_insert(Tags_default, "ta", Location_Uri) }

(* The sections tag_request runs over: four conditions, five actions and   *)
(* two declared tags (with the id and name that go with the tag).          *)
SectionConditions ==
    { <<"And", <<>>>>,
      <<"And", <<GlobalFilterSSection("And", <<EntryCurl>>)>>>>,
      <<"Or", <<GlobalFilterSSection("And", <<EntryTag("ta")>>)>>>>,
      <<"And", <<GlobalFilterSSection("Or", <<Negated(EntryIp)>>),
                 GlobalFilterSSection("Or", <<EntryTag("human"), EntryCurl>>)>>>> }

SectionActions ==
    { None,
      Some(SimpleAction(Monitor, Some([k \in {"h1"} |-> "t1"]), 503, None)),
      Some(SimpleAction(Monitor, Some([k \in {"h2"} |-> "t2"]), 503, None)),
      Some(SimpleAction(Custom("blocked"), None, 403, None)),
      Some(SimpleAction(Challenge("Active"), None, 503, None)) }

FilterSections ==
    { GlobalFilterSection("gf-" \o t, "filter " \o t,
                          [k \in {t} |-> {}], c[1], c[2], a) :
        t \in {"ta", "tb"}, c \in SectionConditions, a \in SectionActions }

TagRequests == {ReqCurl, ReqBrowser}

-----------------------------------------------------------------------------
(* interface/mod.rs: from a SimpleAction to the Decision on a request.     *)

(* grasshopper::PrecisionLevel, as the two signals it is asked for.        *)
PrecisionLevel(human, interactive) ==
    [human |-> human, interactive |-> interactive]

PrecisionLevel_is_human(pl) == pl.human

PrecisionLevel_is_interactive(pl) == pl.interactive

PrecisionLevels ==
    { PrecisionLevel(FALSE, FALSE), PrecisionLevel(TRUE, FALSE),
      PrecisionLevel(TRUE, TRUE) }

(* BDecision::inactive on the action of a reason.                          *)
BlockReason_inactive(r) == [r EXCEPT !.action = "Inactive"]

TemplatePart_Raw(str) == [p |-> "Raw", s |-> str]

TemplatePart_Tag(tagname) == [p |-> "Tag", s |-> tagname]

(* The parsed templates behind the header values of the actions.           *)
RequestTemplate(v) ==
    CASE v = "t1" -> <<TemplatePart_Raw("static")>>
      [] v = "t2" -> <<TemplatePart_Raw("human="), TemplatePart_Tag("human")>>
      [] OTHER -> <<>>

RECURSIVE render_template(_, _, _)
render_template(rinfo, tgs, template) ==
    IF template = <<>> THEN ""
    ELSE LET part == Head(template)
             out == IF part.p = "Raw" THEN part.s
                    ELSE IF Tags_contains(tgs, part.s) THEN "true" ELSE "false"
         IN  out \o render_template(rinfo, tgs, Tail(template))

(* Lines 659-666 of build_decision: the default action with the status and *)
(* the rendered headers of the SimpleAction.                               *)
build_action(sa, rinfo, tgs) ==
    [Action_default EXCEPT
        !.block_mode = ActionType_is_blocking(Action_default.atype),
        !.status = sa.status,
        !.headers =
            IF IsSome(sa.headers)
            THEN Some([k \in Keys(Unwrap(sa.headers)) |->
                          render_template(rinfo, tgs,
                                          RequestTemplate(Unwrap(sa.headers)[k]))])
            ELSE None]

(* challenge_is_human when every mode asks for the human signal only.      *)
challenge_is_human_only(ch_level, pl) ==
    PrecisionLevel_is_human(pl) /\ ch_level = ch_level

(* Lines 675-679 of build_decision: the precision the challenge asks for.  *)
challenge_is_human(ch_level, pl) ==
    IF ch_level = "Interactive" THEN PrecisionLevel_is_interactive(pl)
    ELSE PrecisionLevel_is_human(pl)

(* monitor_fixup applied whatever the type of the action.                  *)
monitor_fixup_always(action) ==
    [action EXCEPT !.status = 200, !.block_mode = FALSE]

(* monitor_fixup left out.                                                 *)
monitor_fixup_none(action) == action

(* monitor_fixup that sets the status and leaves block_mode.               *)
monitor_fixup_status(action) ==
    IF action.atype = "Monitor" THEN [action EXCEPT !.status = 200] ELSE action

(* Lines 690-693 of build_decision.                                        *)
monitor_fixup(action) ==
    IF action.atype = "Monitor"
    THEN [action EXCEPT !.status = 200, !.block_mode = FALSE]
    ELSE action

(* build_decision: [ok |-> TRUE, decision] or [ok |-> FALSE, reasons].     *)
build_decision(sa, rinfo, tgs, pl, reason) ==
    LET action == build_action(sa, rinfo, tgs)
    IN  CASE sa.atype.t = "Skip" ->
                [ok |-> TRUE,
                 decision |-> Decision_action(
                     monitor_fixup([action EXCEPT !.atype = "Skip"]), reason)]
          [] sa.atype.t = "Monitor" ->
                [ok |-> TRUE,
                 decision |-> Decision_action(
                     monitor_fixup([action EXCEPT !.atype = "Monitor"]), reason)]
          [] sa.atype.t = "Custom" ->
                [ok |-> TRUE,
                 decision |-> Decision_action(
                     monitor_fixup([action EXCEPT !.atype = "Block",
                                                  !.content = sa.atype.content]),
                     reason)]
          [] sa.atype.t = "Challenge" ->
                IF ~challenge_is_human(sa.atype.ch_level, pl)
                THEN [ok |-> FALSE, reasons |-> reason]
                ELSE [ok |-> TRUE,
                      decision |-> Decision_action(
                          monitor_fixup([action EXCEPT !.atype = "Monitor"]),
                          [i \in DOMAIN reason |-> BlockReason_inactive(reason[i])])]

(* grasshopper::challenge_phase01: the decision that issues a challenge.   *)
challenge_phase01(gh, rinfo, reasons, ch_mode) ==
    Decision_action(
        Action("Block", TRUE, 247, None, "challenge " \o ch_mode, None), reasons)

(* to_decision with the extra tags left out.                               *)
insert_extra_tags_none(tgs, extra_tags) ==
    IF extra_tags = extra_tags THEN tgs ELSE tgs

(* Lines 706-708 of to_decision: the extra tags of the action are set.     *)
insert_extra_tags(tgs, extra_tags) ==
    LET extra == IF IsSome(extra_tags) THEN Unwrap(extra_tags) ELSE {}
    IN  [k \in Keys(tgs) \cup extra |->
            (IF k \in Keys(tgs) THEN tgs[k] ELSE {})
                \cup (IF k \in extra THEN {Location_Request} ELSE {})]

(* The decision of to_decision once the extra tags are in tgs.             *)
to_decision_from(sa, pl, gh, rinfo, tgs, reason) ==
    IF sa.atype = Skip THEN Decision(None, reason)
    ELSE LET b == build_decision(sa, rinfo, tgs, pl, reason)
         IN  IF b.ok THEN b.decision
             ELSE IF IsSome(gh)
             THEN challenge_phase01(
                      Unwrap(gh), rinfo, b.reasons,
                      IF sa.atype.t = "Challenge" THEN sa.atype.ch_level
                      ELSE "Active")
             ELSE Decision_action(Action_default, b.reasons)

(* to_decision: the tags it leaves and the decision it returns.            *)
to_decision(sa, pl, gh, rinfo, tgs, reason) ==
    LET ntags == insert_extra_tags(tgs, sa.extra_tags)
    IN  [tags |-> ntags,
         decision |-> to_decision_from(sa, pl, gh, rinfo, ntags, reason)]

ExtraTagOptions == {None, Some({"extra"})}

(* The actions to_decision is called on.                                   *)
ToDecisionActions ==
    { SimpleAction(t, h, 403, et) :
        t \in SimpleActionTs,
        h \in {None, Some([k \in {"h1"} |-> "t2"])},
        et \in ExtraTagOptions }

GrasshopperOptions == {None, Some("gh")}

-----------------------------------------------------------------------------
(* interface/mod.rs: SimpleAction::resolve, from the raw configuration.    *)

RawActionTypes == {"Skip", "Monitor", "Custom", "Challenge", "Ichallenge"}

RawActionParams(status, headers, content) ==
    [status |-> status, headers |-> headers, content |-> content]

RawAction(id, type_, params, tgs) ==
    [id |-> id, type_ |-> type_, params |-> params, tags |-> tgs]

(* templating::parse_request_template on the header values of the model.   *)
parse_request_template(v) ==
    CASE v = "static" -> "t1"
      [] v = "human=${tag.human}" -> "t2"
      [] OTHER -> "t0"

(* String::default().                                                      *)
String_default == ""

resolve(raw) ==
    LET atype ==
            CASE raw.type_ = "Skip" -> Skip
              [] raw.type_ = "Monitor" -> Monitor
              [] raw.type_ = "Custom" ->
                    Custom(IF IsSome(raw.params.content)
                           THEN Unwrap(raw.params.content)
                           ELSE String_default)
              [] raw.type_ = "Challenge" -> Challenge("Active")
              [] raw.type_ = "Ichallenge" -> Challenge("Interactive")
        status == IF IsSome(raw.params.status) THEN Unwrap(raw.params.status)
                  ELSE 503
        headers ==
            IF IsSome(raw.params.headers)
            THEN Some([k \in Keys(Unwrap(raw.params.headers)) |->
                          parse_request_template(Unwrap(raw.params.headers)[k])])
            ELSE None
        extra_tags == IF raw.tags = {} THEN None ELSE Some(raw.tags)
    IN  <<raw.id, SimpleAction(atype, headers, status, extra_tags)>>

RawActions ==
    { RawAction("action", ty, RawActionParams(st, h, c), tg) :
        ty \in RawActionTypes,
        st \in {None, Some(403)},
        h \in {None, Some([k \in {"h1"} |-> "static"])},
        c \in {None, Some("denied")},
        tg \in {{}, {"extra"}} }

-----------------------------------------------------------------------------
(* config/waf.rs: compilation of the WAF profiles.                         *)

MaxProfiles == 2

Ok(v) == [ok |-> TRUE, val |-> v]

Err(e) == [ok |-> FALSE, err |-> e]

(* Regex::new on the patterns of the model: "(" and "[a" do not compile.   *)
Regex_new(str) ==
    IF str \in {"(", "[a"} THEN Err("regex parse error: " \o str) ELSE Ok(str)

RawWafEntryMatch(key, reg, restrict, mask, exclusions) ==
    [key |-> key, reg |-> reg, restrict |-> restrict, mask |-> mask,
     exclusions |-> exclusions]

WafEntryMatch(reg, restrict, mask, exclusions) ==
    [reg |-> reg, restrict |-> restrict, mask |-> mask,
     exclusions |-> exclusions]

(* Lines 158-168 of mk_entry_match: no pattern and the empty pattern give  *)
(* no regex, another pattern must compile.                                 *)
compile_reg(reg) ==
    IF ~IsSome(reg) THEN Ok(None)
    ELSE IF Unwrap(reg) = "" THEN Ok(None)
    ELSE Unwrap({ IF r.ok THEN Ok(Some(r.val)) ELSE r :
                  r \in {Regex_new(Unwrap(reg))} })

mk_entry_match(em) ==
    Unwrap({ IF ~compiled.ok THEN compiled
             ELSE Ok(<<em.key,
                       WafEntryMatch(
                           compiled.val,
                           em.restrict,
                           IF IsSome(em.mask) THEN Unwrap(em.mask) ELSE FALSE,
                           UNION {Keys(mp) : mp \in em.exclusions})>>) :
             compiled \in {compile_reg(em.reg)} })

(* The first error of a list of results, if any.                           *)
first_error(results) ==
    Unwrap({ IF failing = {} THEN None
             ELSE Some(results[CHOOSE i \in failing : \A j \in failing : i <= j]) :
             failing \in {{i \in DOMAIN results : ~results[i].ok}} })

(* The map of a list of <<key, value>>: a later pair replaces an earlier    *)
(* one of the same key.                                                    *)
collect_map(pairs) ==
    [k \in {pairs[i][1] : i \in DOMAIN pairs} |->
        pairs[CHOOSE i \in DOMAIN pairs :
                  /\ pairs[i][1] = k
                  /\ \A j \in DOMAIN pairs : pairs[j][1] = k => j <= i][2]]

(* collect() of results: the first error, or the values of all of them.    *)
collect_results(results) ==
    Unwrap({ IF IsSome(e) THEN Unwrap(e)
             ELSE Ok([i \in DOMAIN results |-> results[i].val]) :
             e \in {first_error(results)} })

(* Lines 190-194 of mk_section: a regex rule is its entry with its key     *)
(* compiled.                                                               *)
mk_regex_entry(e) ==
    Unwrap({ IF ~r.ok THEN r
             ELSE Unwrap({ IF ~re.ok THEN re ELSE Ok(<<re.val, r.val[2]>>) :
                           re \in {Regex_new(r.val[1])} }) :
             r \in {mk_entry_match(e)} })

RawWafProperties(names, regex) == [names |-> names, regex |-> regex]

WafSection(max_count, max_length, names, regex) ==
    [max_count |-> max_count, max_length |-> max_length, names |-> names,
     regex |-> regex]

mk_section(props, max_length, max_count) ==
    Unwrap({ IF ~mnames.ok THEN mnames
             ELSE IF ~mregex.ok THEN mregex
             ELSE Ok(WafSection(max_count, max_length, collect_map(mnames.val),
                                mregex.val)) :
             mnames \in {collect_results(
                             [i \in DOMAIN props.names |->
                                 mk_entry_match(props.names[i])])},
             mregex \in {collect_results(
                             [i \in DOMAIN props.regex |->
                                 mk_regex_entry(props.regex[i])])} })

Section(headers, cookies, args, path) ==
    [headers |-> headers, cookies |-> cookies, args |-> args, path |-> path]

WafProfile(id, name, ignore_alphanum, sections, decoding) ==
    [id |-> id, name |-> name, ignore_alphanum |-> ignore_alphanum,
     sections |-> sections, decoding |-> decoding]

(* The profile of a raw profile whose four sections are made.              *)
convert_entry_ok(entry, headers, cookies, args, path) ==
    Ok(<<entry.id,
         WafProfile(entry.id, entry.name, entry.ignore_alphanum,
                    Section(headers, cookies, args, path),
                    <<"Base64Decode", "UrlDecode", "HtmlEntitiesDecode",
                      "UnicodeDecode">>)>>)

(* convert_entry that gives up a failing section and keeps the others.     *)
convert_entry_partial(entry) ==
    Unwrap({ convert_entry_ok(
                 entry,
                 IF headers.ok THEN headers.val
                 ELSE WafSection(entry.max_headers_count, entry.max_header_length,
                                 EmptyMap, <<>>),
                 IF cookies.ok THEN cookies.val
                 ELSE WafSection(entry.max_cookies_count, entry.max_cookie_length,
                                 EmptyMap, <<>>),
                 IF args.ok THEN args.val
                 ELSE WafSection(entry.max_args_count, entry.max_arg_length,
                                 EmptyMap, <<>>),
                 IF path.ok THEN path.val
                 ELSE WafSection(entry.max_args_count, entry.max_arg_length,
                                 EmptyMap, <<>>)) :
             headers \in {mk_section(entry.headers, entry.max_header_length,
                                     entry.max_headers_count)},
             cookies \in {mk_section(entry.cookies, entry.max_cookie_length,
                                     entry.max_cookies_count)},
             args \in {mk_section(entry.args, entry.max_arg_length,
                                  entry.max_args_count)},
             path \in {mk_section(entry.path, entry.max_arg_length,
                                  entry.max_args_count)} })

convert_entry(entry) ==
    Unwrap({ IF ~headers.ok THEN headers
             ELSE IF ~cookies.ok THEN cookies
             ELSE IF ~args.ok THEN args
             ELSE IF ~path.ok THEN path
             ELSE convert_entry_ok(entry, headers.val, cookies.val, args.val,
                                   path.val) :
             headers \in {mk_section(entry.headers, entry.max_header_length,
                                     entry.max_headers_count)},
             cookies \in {mk_section(entry.cookies, entry.max_cookie_length,
                                     entry.max_cookies_count)},
             args \in {mk_section(entry.args, entry.max_arg_length,
                                  entry.max_args_count)},
             path \in {mk_section(entry.path, entry.max_arg_length,
                                  entry.max_args_count)} })

(* The errors logged for the results of convert_entry, in order.           *)
resolve_logs(lg, rawprofiles, results) ==
    Unwrap({ lg \o [n \in 1..Cardinality(bad) |->
                       Unwrap({ "waf id " \o rawprofiles[i].id \o ": "
                                    \o results[i].err :
                                i \in {j \in bad :
                                          Cardinality({k \in bad : k <= j}) = n} })] :
             bad \in {{i \in DOMAIN results : ~results[i].ok}} })

(* The map returned for the results of convert_entry: those that           *)
(* converted, a later one replacing an earlier one of the same id.         *)
resolve_out(results) ==
    Unwrap({ collect_map([i \in DOMAIN oks |-> oks[i].val]) :
             oks \in {SelectSeq(results, LAMBDA r : r.ok)} })

(* WafProfile::resolve: every raw profile is converted in order; one that  *)
(* converts is inserted under its id and one that fails logs an error.     *)
WafProfile_resolve(lg, rawprofiles) ==
    Unwrap({ [out |-> resolve_out(results),
              logs |-> resolve_logs(lg, rawprofiles, results)] :
             results \in {[i \in DOMAIN rawprofiles |->
                              convert_entry(rawprofiles[i])]} })

RawWafProfile(id, name, headers, cookies, args, path) ==
    [id |-> id, name |-> name, ignore_alphanum |-> TRUE,
     headers |-> headers, cookies |-> cookies, args |-> args, path |-> path,
     max_header_length |-> 1024, max_headers_count |-> 42,
     max_cookie_length |-> 1024, max_cookies_count |-> 42,
     max_arg_length |-> 2048, max_args_count |-> 512]

PropsEmpty == RawWafProperties(<<>>, <<>>)

(* Entries that all compile: a name with a pattern, a name with an empty   *)
(* pattern, a name with none, and a regex rule.                            *)
PropsGood ==
    RawWafProperties(
        << RawWafEntryMatch("n1", Some("a.*"), TRUE, Some(TRUE), {}),
           RawWafEntryMatch("n2", Some(""), FALSE, None,
                            {[k \in {"sig1"} |-> "rule"]}),
           RawWafEntryMatch("n3", None, FALSE, None, {}) >>,
        << RawWafEntryMatch("k.*", Some("b.*"), TRUE, None, {}) >>)

(* A name whose pattern does not compile, after one that does.             *)
PropsBadName ==
    RawWafProperties(
        << RawWafEntryMatch("n1", Some("a.*"), TRUE, None, {}),
           RawWafEntryMatch("n2", Some("("), TRUE, None, {}) >>,
        <<>>)

(* A regex rule whose key does not compile.                                *)
PropsBadKey ==
    RawWafProperties(
        <<>>, << RawWafEntryMatch("[a", Some("b.*"), TRUE, None, {}) >>)

(* The raw profiles: of each id, the empty one, the good one, and those    *)
(* with one failing section, the sections before it good.                  *)
RawWafProfiles ==
    UNION { { RawWafProfile(id, "empty", PropsEmpty, PropsEmpty, PropsEmpty,
                            PropsEmpty),
              RawWafProfile(id, "good", PropsGood, PropsEmpty, PropsGood,
                            PropsEmpty),
              RawWafProfile(id, "bad headers", PropsBadName, PropsGood,
                            PropsEmpty, PropsEmpty),
              RawWafProfile(id, "bad cookies", PropsGood, PropsBadKey,
                            PropsEmpty, PropsEmpty),
              RawWafProfile(id, "bad args", PropsGood, PropsGood, PropsBadName,
                            PropsEmpty),
              RawWafProfile(id, "bad path", PropsGood, PropsEmpty, PropsGood,
                            PropsBadKey) } : id \in {"p1", "p2", "p3"} }

-----------------------------------------------------------------------------
(* interface/mod.rs: the two ways from two simple decisions to a decision. *)

(* The number of decisions merged into one.                                *)
MaxMerges == 2

(* The actions of the decisions merged into the one to_decision returned.  *)
MergedActions ==
    { SimpleAction(Skip, None, 403, None),
      SimpleAction(Monitor, Some([k \in {"h1"} |-> "t2"]), 403, None),
      SimpleAction(Custom("denied"), None, 403, Some({"extra"})),
      SimpleAction(Challenge("Active"), None, 403, None) }

(* The simple decisions compared: every action type, with and without a    *)
(* header, the first with reason r1 and the second with reason r2.         *)
PairActions ==
    { SimpleAction(t, h, 403, None) :
        t \in SimpleActionTs, h \in {None, Some([k \in {"h1"} |-> "t2"])} }

(* to_decision with no challenge capability on each simple decision, the   *)
(* second on the tags the first left, then merge_decisions.                *)
resolve_then_merge(sd1, sd2, pl, rinfo, tgs) ==
    merge_decisions(
        to_decision(sd1.action, pl, None, rinfo, tgs, sd1.reasons).decision,
        to_decision(sd2.action, pl, None, rinfo,
                    to_decision(sd1.action, pl, None, rinfo, tgs,
                                sd1.reasons).tags,
                    sd2.reasons).decision)

(* stronger_decision, then to_decision with no challenge capability.       *)
stronger_then_resolve(sd1, sd2, pl, rinfo, tgs) ==
    to_decision(stronger_decision(sd1, sd2).action, pl, None, rinfo, tgs,
                stronger_decision(sd1, sd2).reasons).decision

-----------------------------------------------------------------------------
(* Concurrent evaluations: each runs tag_request, to_decision and          *)
(* merge_decisions on its own request against the shared filter sections.  *)

Evaluators == {1, 2}

(* The locals of one evaluation.  sdecision is what tag_request returns    *)
(* and decision what the evaluation ends with.                             *)
Evaluation(pos, rinfo, human, tgs, psection, nmatch, sdecision, decision) ==
    [pos |-> pos, rinfo |-> rinfo, is_human |-> human, tags |-> tgs,
     psection |-> psection, matched |-> nmatch, sdecision |-> sdecision,
     decision |-> decision]

Evaluation_idle ==
    Evaluation("idle", ReqCurl, FALSE, Tags_default, 1, 0, SimpleDecision_Pass,
               Decision_pass(<<>>))

(* The sections of the shared configuration: one that always matches and   *)
(* monitors, one on the tag of the first that blocks, one on the user      *)
(* agent with no action, one that challenges.                              *)
SharedSections ==
    { GlobalFilterSection("gf-ta", "filter ta", [k \in {"ta"} |-> {}], "And", <<>>,
          Some(SimpleAction(Monitor, Some([k \in {"h1"} |-> "t1"]), 503, None))),
      GlobalFilterSection("gf-tb", "filter tb", [k \in {"tb"} |-> {}], "Or",
          <<GlobalFilterSSection("And", <<EntryTag("ta")>>)>>,
          Some(SimpleAction(Custom("blocked"), None, 403, None))),
      GlobalFilterSection("gf-ta", "filter ta", [k \in {"ta"} |-> {}], "And",
          <<GlobalFilterSSection("And", <<EntryCurl>>)>>, None),
      GlobalFilterSection("gf-tb", "filter tb", [k \in {"tb"} |-> {}], "And",
          <<GlobalFilterSSection("Or", <<EntryTag("human"), EntryCurl>>)>>,
          Some(SimpleAction(Challenge("Active"), None, 503, None))) }

(* Lines 149-198 of tag_request: the locals once the baseline tags are     *)
(* set.                                                                    *)
tag_request_enter(r, human, gf) ==
    Evaluation(IF gf = <<>> THEN "decide" ELSE "loop", r, human,
               baseline_tags(human, r), 1, 0, SimpleDecision_Pass,
               Decision_pass(<<>>))

(* Lines 200-220 of tag_request: one iteration of the loop on the locals   *)
(* ev, reading the tags tgs.                                               *)
tag_request_iterate(ev, tgs, gf) ==
    Unwrap({ [ev EXCEPT
                 !.matched = IF m.matching THEN @ + 1 ELSE @,
                 !.tags = IF m.matching
                          THEN Tags_extend(tgs, Tags_with_locs(
                                   gf[ev.psection].tags, m.matched))
                          ELSE tgs,
                 !.sdecision =
                     IF m.matching /\ IsSome(gf[ev.psection].action)
                            /\ ~tag_only(Unwrap(gf[ev.psection].action), ev.is_human)
                     THEN SimpleDecision_Action(
                              Unwrap(gf[ev.psection].action),
                              <<BlockReason_global_filter(gf[ev.psection].id,
                                                          gf[ev.psection].name)>>)
                     ELSE SimpleDecision_Pass,
                 !.pos =
                     IF (m.matching /\ IsSome(gf[ev.psection].action)
                            /\ ~tag_only(Unwrap(gf[ev.psection].action), ev.is_human))
                           \/ ev.psection = Len(gf)
                     THEN "decide" ELSE "loop",
                 !.psection =
                     IF m.matching /\ IsSome(gf[ev.psection].action)
                            /\ ~tag_only(Unwrap(gf[ev.psection].action), ev.is_human)
                     THEN @ ELSE @ + 1] :
             m \in {check_section(ev.rinfo, tgs, gf[ev.psection])} })

(* The decision of an evaluation whose scan returned: to_decision on the   *)
(* action of tag_request, if any, with no challenge capability, merged     *)
(* into the decision the request had.                                      *)
evaluation_decide(ev) ==
    [ev EXCEPT
        !.pos = "done",
        !.tags =
            IF ev.sdecision = SimpleDecision_Pass THEN @
            ELSE to_decision(ev.sdecision.action,
                             PrecisionLevel(ev.is_human, FALSE), None, ev.rinfo,
                             ev.tags, ev.sdecision.reasons).tags,
        !.decision =
            IF ev.sdecision = SimpleDecision_Pass THEN @
            ELSE merge_decisions(
                     @,
                     to_decision(ev.sdecision.action,
                                 PrecisionLevel(ev.is_human, FALSE), None,
                                 ev.rinfo, ev.tags,
                                 ev.sdecision.reasons).decision)]

(* The Tags that every evaluation would read were they one shared value.   *)
scan_tags_shared(evs, p) == IF p = p THEN evs[1].tags ELSE evs[p].tags

(* Line 149 of tag_request: the Tags an evaluation reads are its own.      *)
scan_tags(evs, p) == evs[p].tags

RECURSIVE scan_alone(_, _)
(* The loop of tag_request run to its end on the locals ev.                *)
scan_alone(ev, gf) ==
    IF ev.pos # "loop" THEN ev
    ELSE scan_alone(tag_request_iterate(ev, ev.tags, gf), gf)

(* The evaluation of a request alone.                                      *)
evaluate_alone(r, human, gf) ==
    evaluation_decide(scan_alone(tag_request_enter(r, human, gf), gf))

-----------------------------------------------------------------------------
(* config/globalfilter.rs: optimize_ipranges, as tagging.rs tests it.  The *)
(* entries of a subsection that are V4 networks are folded into ranges:    *)
(* under And the intersection of the plain networks less the negated       *)
(* ones, under Or the union of the plain networks; negated networks alone  *)
(* become one negated range.                                               *)

MaxNets == 3

V4Addrs == 0..15

net_addrs(net) == {a \in V4Addrs : net.lo <= a /\ a <= net.hi}

(* The IpRange of a set of V4 addresses.                                   *)
IpRange_of(addrs) == {IpNet("V4", a, a) : a \in addrs}

is_v4_network(e) == e.kind = "Network" /\ e.entry.fam = "V4"

(* The addresses in every plain network and in every negated network of    *)
(* the entries, and those in some plain or some negated network.           *)
inter_addrs(entries, negated) ==
    {a \in V4Addrs :
        \A i \in DOMAIN entries :
            (is_v4_network(entries[i]) /\ entries[i].negated = negated) =>
                a \in net_addrs(entries[i].entry)}

union_addrs(entries, negated) ==
    {a \in V4Addrs :
        \E i \in DOMAIN entries :
            /\ is_v4_network(entries[i])
            /\ entries[i].negated = negated
            /\ a \in net_addrs(entries[i].entry)}

has_network(entries, negated) ==
    \E i \in DOMAIN entries :
        is_v4_network(entries[i]) /\ entries[i].negated = negated

range4_entry(negated, addrs) ==
    GlobalFilterEntry(negated, "Range4", IpRange_of(addrs))

(* optimize_ipranges that folds the plain networks only and drops the      *)
(* negated ones.                                                           *)
optimize_ipranges_plain(rel, unoptimized) ==
    (IF has_network(unoptimized, FALSE)
     THEN << range4_entry(FALSE, IF rel = "And"
                                 THEN inter_addrs(unoptimized, FALSE)
                                 ELSE union_addrs(unoptimized, FALSE)) >>
     ELSE <<>>)
        \o SelectSeq(unoptimized, LAMBDA e : ~is_v4_network(e))

optimize_ipranges(rel, unoptimized) ==
    (IF rel = "And"
     THEN IF has_network(unoptimized, FALSE)
          THEN << range4_entry(FALSE, inter_addrs(unoptimized, FALSE)
                                          \ union_addrs(unoptimized, TRUE)) >>
          ELSE IF has_network(unoptimized, TRUE)
          THEN << range4_entry(TRUE, union_addrs(unoptimized, TRUE)) >>
          ELSE <<>>
     ELSE (IF has_network(unoptimized, FALSE)
           THEN << range4_entry(FALSE, union_addrs(unoptimized, FALSE)) >>
           ELSE <<>>)
          \o (IF has_network(unoptimized, TRUE)
              THEN << range4_entry(TRUE, inter_addrs(unoptimized, TRUE)) >>
              ELSE <<>>))
        \o SelectSeq(unoptimized, LAMBDA e : ~is_v4_network(e))

(* tests::optimize: the subsection with its entries optimized.             *)
optimize(ss) ==
    GlobalFilterSSection(ss.relation, optimize_ipranges(ss.relation, ss.entries))

(* The networks of the tests, on the addresses of the model:               *)
(* 192.168.0.0/23 is 4..7, 192.168.0.0/24 is 4..5, 192.168.1.0/24 is 6..7  *)
(* and 192.168.2.0/24 is 8..9.                                             *)
Net_168_0_23 == IpNet("V4", 4, 7)

Net_168_0_24 == IpNet("V4", 4, 5)

Net_168_1_24 == IpNet("V4", 6, 7)

Net_168_2_24 == IpNet("V4", 8, 9)

(* mk_globalfilterentries: a plain or a negated Network entry.             *)
NetworkEntries ==
    { GlobalFilterEntry(neg, "Network", net) :
        neg \in BOOLEAN,
        net \in {Net_168_0_23, Net_168_0_24, Net_168_1_24, Net_168_2_24} }

(* The addresses sampled: 10.0.4.1 is 0, 192.168.0.23 is 5, 192.168.1.23   *)
(* is 6, 192.168.2.23 is 8, 192.170.2.45 is 12, and a V6 address.          *)
SampleAddrs ==
    { IpAddr("V4", 0), IpAddr("V4", 5), IpAddr("V4", 6), IpAddr("V4", 8),
      IpAddr("V4", 12), IpAddr("V6", 6) }

-----------------------------------------------------------------------------
(* interface/mod.rs: jsonlog and jsonlog_rinfo, the audit record.  The     *)
(* aggregation of stats that jsonlog starts is outside the record.         *)

(* The bytes of the record: the JSON null or a JSON object.                *)
Json_null == [json |-> "null"]

Json_object(entries) == [json |-> "object", entries |-> entries]

(* str::parse::<u32>() of the status the proxy reports.                    *)
parse_u32(str) ==
    IF str = "200" THEN Ok(200)
    ELSE IF str = "404" THEN Ok(404)
    ELSE Err("invalid digit found in string")

(* Line 200 of jsonlog: the response code given, else the parsed status of *)
(* the proxy.                                                              *)
status_code(rc, prx) ==
    IF IsSome(rc) THEN rc
    ELSE IF "status" \notin Keys(prx) THEN None
    ELSE IF parse_u32(prx["status"]).ok THEN Some(parse_u32(prx["status"]).val)
    ELSE None

(* LogTags::serialize, lines 279-283: the pairs of the response code.      *)
code_vec(rc) ==
    IF IsSome(rc)
    THEN << <<"status", ToString(Unwrap(rc))>>,
            <<"status-class", ToString(Unwrap(rc) \div 100) \o "xx">> >>
    ELSE <<>>

(* Tags::serialize_with_extra: the names of the tags, the extra names and  *)
(* key:value of each pair.                                                 *)
Tags_serialize_with_extra(tgs, extra, extra_kv) ==
    Keys(tgs) \cup extra
        \cup {extra_kv[i][1] \o ":" \o extra_kv[i][2] : i \in DOMAIN extra_kv}

(* The response code the tags are made with, which keeps the code of a     *)
(* Monitor action.                                                         *)
tags_rcode_kept(dec, rc) == IF dec = dec THEN rc ELSE None

(* Lines 296-302 of jsonlog_rinfo: a Monitor action removes the response   *)
(* code the tags are made with.                                            *)
tags_rcode(dec, rc) ==
    IF IsSome(dec.maction) /\ Unwrap(dec.maction).atype = "Monitor"
    THEN None
    ELSE rc

(* Line 308 of jsonlog_rinfo: the extra tags of the action, if any.        *)
log_extra(dec) ==
    IF IsSome(dec.maction) /\ IsSome(Unwrap(dec.maction).extra_tags)
    THEN Unwrap(Unwrap(dec.maction).extra_tags)
    ELSE {}

(* jsonlog_rinfo: the entries of the record that depend on the response    *)
(* code, or the error of the serializer.                                   *)
jsonlog_rinfo(dec, r, rc, tgs, fails) ==
    IF fails THEN Err("serde_json::Error")
    ELSE Ok([method |-> r.method,
             path |-> r.qpath,
             response_code |-> rc,
             tags |-> Tags_serialize_with_extra(
                          tgs, log_extra(dec), code_vec(tags_rcode(dec, rc)))])

(* jsonlog: the record of the request, or "null" without a request or      *)
(* when the serializer fails.                                              *)
jsonlog(dec, mri, rc, tgs, prx, fails) ==
    IF ~IsSome(mri) THEN Json_null
    ELSE IF jsonlog_rinfo(dec, Unwrap(mri), status_code(rc, prx), tgs, fails).ok
    THEN Json_object(
             jsonlog_rinfo(dec, Unwrap(mri), status_code(rc, prx), tgs, fails).val)
    ELSE Json_null

(* The response codes, the proxy metadata and the requests jsonlog is      *)
(* called with.                                                            *)
ResponseCodes == {None, Some(200), Some(503)}

ProxyMaps ==
    { EmptyMap, [k \in {"status"} |-> "404"], [k \in {"status"} |-> "abc"] }

-----------------------------------------------------------------------------
Init ==
    /\ call = "none"
    /\ pc = "idle"
    /\ d1 = Decision_pass(<<>>)
    /\ d2 = Decision_pass(<<>>)
    /\ kept = Decision_pass(<<>>)
    /\ folded = EmptyBag
    /\ reqinfo = ReqCurl
    /\ tags = Tags_default
    /\ is_human = FALSE
    /\ globalfilters = <<>>
    /\ isection = 1
    /\ nmatched = 0
    /\ checked = GlobalFilterSSection("And", <<>>)
    /\ mtch = MatchResult({}, TRUE)
    /\ self = SimpleAction(Skip, None, 503, None)
    /\ precision_level = PrecisionLevel(FALSE, FALSE)
    /\ mgh = None
    /\ rawaction = RawAction("action", "Skip", RawActionParams(None, None, None), {})
    /\ waf_raw = <<>>
    /\ waf_out = EmptyMap
    /\ logs = <<>>
    /\ mrinfo = None
    /\ rcode = None
    /\ proxy = EmptyMap
    /\ serfail = FALSE
    /\ request_map = Json_null
    /\ optimized = GlobalFilterSSection("And", <<>>)
    /\ mtch_opt = MatchResult({}, TRUE)
    /\ matched_sections = {}
    /\ via_merge = Decision_pass(<<>>)
    /\ via_stronger = Decision_pass(<<>>)
    /\ nmerged = 0
    /\ snapshot = <<>>
    /\ evals = [p \in Evaluators |-> Evaluation_idle]

(* merge_decisions(a, b) on two fresh decisions.                           *)
MergeDecisions ==
    /\ call = "none"
    /\ \E a \in Decisions, b \in Decisions :
        /\ call' = "merge_decisions"
        /\ d1' = a
        /\ d2' = b
        /\ kept' = merge_decisions(a, b)
        /\ folded' = BagOfSeq(a.reasons) (+) BagOfSeq(b.reasons)
    /\ pc' = "done"
    /\ UNCHANGED <<tagVars, decisionVars, configVars, logVars, iprangeVars, scanVars,
                   restVars>>

(* One more step of a fold of merge_decisions: the accumulator is merged   *)
(* with the next decision.                                                 *)
MergeFold ==
    /\ call \in {"none", "fold"}
    /\ Len(kept.reasons) <= MaxReasons
    /\ \E b \in FoldDecisions :
        /\ call' = "fold"
        /\ d1' = kept
        /\ d2' = b
        /\ kept' = merge_decisions(kept, b)
        /\ folded' = folded (+) BagOfSeq(b.reasons)
    /\ pc' = "done"
    /\ UNCHANGED <<tagVars, decisionVars, configVars, logVars, iprangeVars, scanVars,
                   restVars>>

(* stronger_decision(a, b) on two simple decisions.                        *)
StrongerDecision ==
    /\ call = "none"
    /\ \E a \in SimpleDecisions, b \in SimpleDecisions :
        /\ call' = "stronger_decision"
        /\ d1' = a
        /\ d2' = b
        /\ kept' = stronger_decision(a, b)
    /\ pc' = "done"
    /\ UNCHANGED <<folded, tagVars, decisionVars, configVars, logVars, iprangeVars, scanVars,
                   restVars>>

(* check_entry on one leaf.                                                *)
CheckEntry ==
    /\ call = "none"
    /\ \E r \in Requests, tg \in TagSamples, e \in AllEntries :
        /\ reqinfo' = r
        /\ tags' = tg
        /\ checked' = e
        /\ mtch' = check_entry(r, tg, e)
    /\ call' = "check_entry"
    /\ pc' = "done"
    /\ UNCHANGED <<mergeVars, is_human, globalfilters, isection, nmatched, decisionVars, configVars, logVars, iprangeVars, scanVars,
                   restVars>>

(* check_subsection: check_relation over the entries of a subsection.      *)
CheckSubsection ==
    /\ call = "none"
    /\ \E r \in Requests, tg \in TagSamples, ss \in Subsections :
        /\ reqinfo' = r
        /\ tags' = tg
        /\ checked' = ss
        /\ mtch' = check_subsection(r, tg, ss)
    /\ call' = "check_subsection"
    /\ pc' = "done"
    /\ UNCHANGED <<mergeVars, is_human, globalfilters, isection, nmatched, decisionVars, configVars, logVars, iprangeVars, scanVars,
                   restVars>>

(* check_relation over the subsections of a section.                       *)
CheckSection ==
    /\ call = "none"
    /\ \E r \in Requests, tg \in TagSamples, sec \in RelationSections :
        /\ reqinfo' = r
        /\ tags' = tg
        /\ checked' = sec
        /\ mtch' = check_section(r, tg, sec)
    /\ call' = "check_section"
    /\ pc' = "done"
    /\ UNCHANGED <<mergeVars, is_human, globalfilters, isection, nmatched, decisionVars, configVars, logVars, iprangeVars, scanVars,
                   restVars>>

(* tag_request is entered: the baseline tags are set; with no filter       *)
(* section it returns Pass at once.                                        *)
TagRequest ==
    /\ call = "none"
    /\ \E r \in TagRequests, h \in BOOLEAN,
          gf \in SeqsUpTo(FilterSections, MaxSections) :
        /\ reqinfo' = r
        /\ is_human' = h
        /\ globalfilters' = gf
        /\ tags' = baseline_tags(h, r)
        /\ pc' = IF gf = <<>> THEN "done" ELSE "loop"
    /\ call' = "tag_request"
    /\ isection' = 1
    /\ nmatched' = 0
    /\ kept' = SimpleDecision_Pass
    /\ matched_sections' = {}
    /\ UNCHANGED <<d1, d2, folded, checked, mtch, decisionVars, configVars,
                   logVars, iprangeVars,
                   restVars>>

(* One iteration of the loop of tag_request, over section isection; the    *)
(* function returns from it on an enforcing section, and after the last    *)
(* section.                                                                *)
TagSection ==
    /\ call = "tag_request"
    /\ pc = "loop"
    /\ LET sec == globalfilters[isection]
           m == check_section(reqinfo, tags, sec)
           enforce == /\ m.matching
                      /\ IsSome(sec.action)
                      /\ ~tag_only(Unwrap(sec.action), is_human)
       IN  /\ checked' = sec
           /\ mtch' = m
           /\ nmatched' = IF m.matching THEN nmatched + 1 ELSE nmatched
           /\ matched_sections' = IF m.matching
                                  THEN matched_sections \cup {isection}
                                  ELSE matched_sections
           /\ tags' = IF m.matching
                      THEN Tags_extend(tags, Tags_with_locs(sec.tags, m.matched))
                      ELSE tags
           /\ kept' = IF enforce
                      THEN SimpleDecision_Action(
                               Unwrap(sec.action),
                               <<BlockReason_global_filter(sec.id, sec.name)>>)
                      ELSE SimpleDecision_Pass
           /\ pc' = IF enforce \/ isection = Len(globalfilters)
                    THEN "done" ELSE "loop"
           /\ isection' = IF enforce THEN isection ELSE isection + 1
    /\ UNCHANGED <<call, d1, d2, folded, reqinfo, is_human, globalfilters,
                   decisionVars, configVars, logVars, iprangeVars,
                   restVars>>

(* to_decision on an action, a request, its tags and a list of reasons.    *)
ToDecision ==
    /\ call = "none"
    /\ \E sa \in ToDecisionActions, pl \in PrecisionLevels,
          gh \in GrasshopperOptions, tg \in TagSamples, rs \in ReasonLists :
        /\ self' = sa
        /\ precision_level' = pl
        /\ mgh' = gh
        /\ d1' = SimpleDecision_Action(sa, rs)
        /\ tags' = to_decision(sa, pl, gh, ReqCurl, tg, rs).tags
        /\ kept' = to_decision(sa, pl, gh, ReqCurl, tg, rs).decision
    /\ call' = "to_decision"
    /\ pc' = "done"
    /\ reqinfo' = ReqCurl
    /\ UNCHANGED <<d2, folded, is_human, globalfilters, isection, nmatched,
                   checked, mtch, configVars, logVars, iprangeVars, scanVars,
                   restVars>>

(* to_decision on the action and the reason that tag_request returned,     *)
(* with the tags it returned.                                              *)
TagRequestToDecision ==
    /\ call = "tag_request"
    /\ pc = "done"
    /\ kept # SimpleDecision_Pass
    /\ \E pl \in PrecisionLevels :
        /\ precision_level' = pl
        /\ tags' = to_decision(kept.action, pl, None, reqinfo, tags,
                               kept.reasons).tags
        /\ kept' = to_decision(kept.action, pl, None, reqinfo, tags,
                               kept.reasons).decision
    /\ self' = kept.action
    /\ mgh' = None
    /\ d1' = kept
    /\ call' = "tag_request_to_decision"
    /\ UNCHANGED <<pc, d2, folded, reqinfo, is_human, globalfilters, isection,
                   nmatched, checked, mtch, configVars, logVars, iprangeVars, scanVars,
                   restVars>>

(* SimpleAction::resolve on a raw action.                                  *)
Resolve ==
    /\ call = "none"
    /\ \E raw \in RawActions :
        /\ rawaction' = raw
        /\ self' = resolve(raw)[2]
    /\ call' = "resolve"
    /\ pc' = "done"
    /\ UNCHANGED <<mergeVars, tagVars, precision_level, mgh, waf_raw, waf_out,
                   logs, logVars, iprangeVars, scanVars,
                   restVars>>

(* WafProfile::resolve on a list of raw profiles, with an empty log.       *)
WafResolve ==
    /\ call = "none"
    /\ \E rps \in SeqsUpTo(RawWafProfiles, MaxProfiles) :
        /\ waf_raw' = rps
        /\ waf_out' = WafProfile_resolve(<<>>, rps).out
        /\ logs' = WafProfile_resolve(<<>>, rps).logs
    /\ call' = "waf_resolve"
    /\ pc' = "done"
    /\ UNCHANGED <<mergeVars, tagVars, decisionVars, rawaction, logVars, iprangeVars, scanVars,
                   restVars>>

(* jsonlog on the decision and the tags that to_decision returned.         *)
JsonLog ==
    /\ call = "to_decision"
    /\ \E mri \in {None, Some(reqinfo)}, rc \in ResponseCodes,
          prx \in ProxyMaps, fails \in BOOLEAN :
        /\ mrinfo' = mri
        /\ rcode' = rc
        /\ proxy' = prx
        /\ serfail' = fails
        /\ request_map' = jsonlog(kept, mri, rc, tags, prx, fails)
    /\ call' = "jsonlog"
    /\ UNCHANGED <<pc, mergeVars, tagVars, decisionVars, configVars, iprangeVars,
                   scanVars,
                   restVars>>

(* tests::check_iprange on one sample: check_subsection on a subsection of *)
(* Network entries and on the same subsection optimized.                   *)
CheckIprange ==
    /\ call = "none"
    /\ \E rel \in Relations, input \in SeqsUpTo(NetworkEntries, MaxNets),
          ip \in SampleAddrs :
        /\ reqinfo' = [ReqCurl EXCEPT !.ip = Some(ip)]
        /\ tags' = Tags_default
        /\ checked' = GlobalFilterSSection(rel, input)
        /\ optimized' = optimize(GlobalFilterSSection(rel, input))
        /\ mtch' = check_subsection([ReqCurl EXCEPT !.ip = Some(ip)],
                                    Tags_default,
                                    GlobalFilterSSection(rel, input))
        /\ mtch_opt' = check_subsection([ReqCurl EXCEPT !.ip = Some(ip)],
                                        Tags_default,
                                        optimize(GlobalFilterSSection(rel, input)))
    /\ call' = "check_iprange"
    /\ pc' = "done"
    /\ UNCHANGED <<mergeVars, is_human, globalfilters, isection, nmatched,
                   decisionVars, configVars, logVars, scanVars,
                   restVars>>

(* Two simple decisions on one request, decided both ways.                 *)
ResolveBothWays ==
    /\ call = "none"
    /\ \E a \in PairActions, b \in PairActions, pl \in PrecisionLevels :
        /\ d1' = SimpleDecision_Action(a, <<BlockReason("r1", "rule", "Acl", "Custom")>>)
        /\ d2' = SimpleDecision_Action(b, <<BlockReason("r2", "rule", "Acl", "Custom")>>)
        /\ precision_level' = pl
        /\ via_merge' = resolve_then_merge(
               SimpleDecision_Action(a, <<BlockReason("r1", "rule", "Acl", "Custom")>>),
               SimpleDecision_Action(b, <<BlockReason("r2", "rule", "Acl", "Custom")>>),
               pl, ReqCurl, Tags_default)
        /\ via_stronger' = stronger_then_resolve(
               SimpleDecision_Action(a, <<BlockReason("r1", "rule", "Acl", "Custom")>>),
               SimpleDecision_Action(b, <<BlockReason("r2", "rule", "Acl", "Custom")>>),
               pl, ReqCurl, Tags_default)
    /\ call' = "resolve_both_ways"
    /\ pc' = "done"
    /\ reqinfo' = ReqCurl
    /\ mgh' = None
    /\ UNCHANGED <<kept, folded, tags, is_human, globalfilters, isection, nmatched,
                   checked, mtch, self, configVars, logVars, iprangeVars,
                   scanVars, nmerged, parVars>>

(* merge_decisions of the decision of the request with the decision that   *)
(* to_decision returns for one more action on the same request, on either  *)
(* side.                                                                   *)
MergeResolved ==
    /\ call \in {"to_decision", "merge_resolved"}
    /\ mgh = None
    /\ nmerged < MaxMerges
    /\ \E sa \in MergedActions, first \in BOOLEAN :
        /\ tags' = to_decision(sa, precision_level, None, reqinfo, tags, <<>>).tags
        /\ kept' =
               IF first
               THEN merge_decisions(
                        kept,
                        to_decision(sa, precision_level, None, reqinfo, tags,
                                    <<>>).decision)
               ELSE merge_decisions(
                        to_decision(sa, precision_level, None, reqinfo, tags,
                                    <<>>).decision,
                        kept)
    /\ nmerged' = nmerged + 1
    /\ call' = "merge_resolved"
    /\ UNCHANGED <<pc, d1, d2, folded, reqinfo, is_human, globalfilters, isection,
                   nmatched, checked, mtch, decisionVars, configVars, logVars,
                   iprangeVars, scanVars, equivVars, parVars>>

(* The configuration snapshot is loaded, before any evaluation.            *)
LoadSnapshot ==
    /\ call = "none"
    /\ \E gf \in SeqsUpTo(SharedSections, MaxSections) : snapshot' = gf
    /\ call' = "evaluate"
    /\ UNCHANGED <<pc, mergeVars, tagVars, decisionVars, configVars, logVars,
                   iprangeVars, scanVars, equivVars, nmerged, evals>>

(* Evaluation p enters tag_request on its request.                         *)
EnterTagRequest(p) ==
    /\ call = "evaluate"
    /\ evals[p].pos = "idle"
    /\ \E r \in TagRequests, h \in BOOLEAN :
        evals' = [evals EXCEPT ![p] = tag_request_enter(r, h, snapshot)]
    /\ UNCHANGED <<call, pc, mergeVars, tagVars, decisionVars, configVars, logVars,
                   iprangeVars, scanVars, equivVars, nmerged, snapshot>>

(* Evaluation p runs one iteration of the loop of tag_request.             *)
IterateTagRequest(p) ==
    /\ call = "evaluate"
    /\ evals[p].pos = "loop"
    /\ evals' = [evals EXCEPT
                    ![p] = tag_request_iterate(evals[p], scan_tags(evals, p),
                                               snapshot)]
    /\ UNCHANGED <<call, pc, mergeVars, tagVars, decisionVars, configVars, logVars,
                   iprangeVars, scanVars, equivVars, nmerged, snapshot>>

(* Evaluation p resolves and merges its decision.                          *)
Decide(p) ==
    /\ call = "evaluate"
    /\ evals[p].pos = "decide"
    /\ evals' = [evals EXCEPT ![p] = evaluation_decide(evals[p])]
    /\ UNCHANGED <<call, pc, mergeVars, tagVars, decisionVars, configVars, logVars,
                   iprangeVars, scanVars, equivVars, nmerged, snapshot>>

Next ==
    \/ MergeResolved
    \/ ResolveBothWays
    \/ CheckIprange
    \/ JsonLog
    \/ WafResolve
    \/ Resolve
    \/ ToDecision
    \/ TagRequestToDecision
    \/ MergeDecisions
    \/ MergeFold
    \/ StrongerDecision
    \/ CheckEntry
    \/ CheckSubsection
    \/ CheckSection
    \/ TagRequest
    \/ TagSection

vars ==
    <<call, pc, d1, d2, kept, folded, reqinfo, tags, is_human, globalfilters,
      isection, nmatched, checked, mtch, self, precision_level, mgh,
      rawaction, waf_raw, waf_out, logs, mrinfo, rcode, proxy, serfail,
      request_map, optimized, mtch_opt, matched_sections, via_merge,
      via_stronger, nmerged, snapshot, evals>>

Spec == Init /\ [][Next]_vars

(* The concurrent evaluations of two requests.                             *)
NextPar ==
    \/ LoadSnapshot
    \/ \E p \in Evaluators : EnterTagRequest(p)
    \/ \E p \in Evaluators : IterateTagRequest(p)
    \/ \E p \in Evaluators : Decide(p)

SpecPar == Init /\ [][NextPar]_vars

-----------------------------------------------------------------------------
(* Properties of the decision merger.                                      *)

IsMerge == call \in {"merge_decisions", "fold"}

IsStronger == call = "stronger_decision"

BothActions == d1.kind = "Action" /\ d2.kind = "Action"

SimpleReasons(sd) == IF sd.kind = "Action" THEN sd.reasons ELSE <<>>

(* The priority of a decision when merging: no action is below any action. *)
DecisionPriority(d) ==
    IF IsSome(d.maction) THEN ActionType_priority(Unwrap(d.maction).atype) ELSE 0

(* C1: merge_decisions and stronger_decision keep every reason of both     *)
(* arguments, none lost and none duplicated, whichever side wins; a fold   *)
(* of merge_decisions carries the multiset union of all reasons folded.    *)
C1_ReasonPreservation ==
    /\ IsMerge =>
        /\ Len(kept.reasons) = Len(d1.reasons) + Len(d2.reasons)
        /\ BagOfSeq(kept.reasons) = BagOfSeq(d1.reasons) (+) BagOfSeq(d2.reasons)
    /\ IsStronger =>
        /\ Len(SimpleReasons(kept))
             = Len(SimpleReasons(d1)) + Len(SimpleReasons(d2))
        /\ BagOfSeq(SimpleReasons(kept))
             = BagOfSeq(SimpleReasons(d1)) (+) BagOfSeq(SimpleReasons(d2))
    /\ call = "fold" => BagOfSeq(kept.reasons) = folded

(* The second decision wins and the first, thrown away, has a reason that  *)
(* the second has too.                                                     *)
C1_Witness ==
    /\ call = "merge_decisions"
    /\ merge_kept_side(d1, d2) = 2
    /\ Len(d1.reasons) = 1
    /\ d1.reasons = d2.reasons
    /\ Len(kept.reasons) = 2

(* C2: when the priorities differ the winner does not depend on the order  *)
(* of the arguments: both orders keep the action of the higher priority,   *)
(* in merge_decisions and (also when one side is Pass) stronger_decision.  *)
C2_WinnerOrderIndependent ==
    /\ (call = "merge_decisions" /\ DecisionPriority(d1) # DecisionPriority(d2)) =>
        LET hi == IF DecisionPriority(d1) > DecisionPriority(d2) THEN d1 ELSE d2
        IN  /\ kept.maction = hi.maction
            /\ merge_decisions(d2, d1).maction = hi.maction
    /\ (IsStronger /\ d1.kind = "Pass" /\ d2.kind = "Action") =>
        /\ kept.action = d2.action
        /\ stronger_decision(d2, d1).action = d2.action
    /\ (IsStronger /\ d1.kind = "Action" /\ d2.kind = "Pass") =>
        /\ kept.action = d1.action
        /\ stronger_decision(d2, d1).action = d1.action
    /\ (IsStronger /\ BothActions
          /\ SimpleActionT_priority(d1.action.atype)
               # SimpleActionT_priority(d2.action.atype)) =>
        LET hi == IF SimpleActionT_priority(d1.action.atype)
                       > SimpleActionT_priority(d2.action.atype)
                  THEN d1 ELSE d2
        IN  /\ kept.action = hi.action
            /\ stronger_decision(d2, d1).action = hi.action

(* The second argument carries the higher priority: Monitor against Block. *)
C2_Witness ==
    /\ call = "merge_decisions"
    /\ IsSome(d1.maction) /\ IsSome(d2.maction)
    /\ Unwrap(d1.maction).atype = "Monitor"
    /\ Unwrap(d2.maction).atype = "Block"
    /\ kept.maction = d2.maction

MergeTie ==
    /\ call = "merge_decisions"
    /\ \/ ~IsSome(d1.maction) /\ ~IsSome(d2.maction)
       \/ /\ IsSome(d1.maction) /\ IsSome(d2.maction)
          /\ ActionType_priority(Unwrap(d1.maction).atype)
               = ActionType_priority(Unwrap(d2.maction).atype)

(* C3: on a tie (equal priorities, or no action on either side)            *)
(* merge_decisions keeps the first argument: its action type, status,      *)
(* content and block_mode, with its reasons before the second's.           *)
C3_MergeTieKeepsFirst ==
    MergeTie =>
        /\ IsSome(kept.maction) = IsSome(d1.maction)
        /\ IsSome(d1.maction) =>
            LET k == Unwrap(kept.maction)
                a == Unwrap(d1.maction)
            IN  /\ k.atype = a.atype
                /\ k.status = a.status
                /\ k.content = a.content
                /\ k.block_mode = a.block_mode
        /\ kept.reasons = d1.reasons \o d2.reasons

(* Two Block actions that differ in status, content and reasons.           *)
C3_Witness ==
    /\ MergeTie
    /\ IsSome(d1.maction) /\ IsSome(d2.maction)
    /\ Unwrap(d1.maction).atype = "Block"
    /\ Unwrap(d1.maction).status # Unwrap(d2.maction).status
    /\ Unwrap(d1.maction).content # Unwrap(d2.maction).content
    /\ Len(d1.reasons) = 1 /\ Len(d2.reasons) = 1
    /\ d1.reasons # d2.reasons

(* C4: on a tie between two actions stronger_decision keeps the first      *)
(* argument's action (type, content or mode, status).                      *)
C4_StrongerTieKeepsFirst ==
    (IsStronger /\ BothActions
       /\ SimpleActionT_priority(d1.action.atype)
            = SimpleActionT_priority(d2.action.atype)) =>
        /\ kept.action.atype = d1.action.atype
        /\ kept.action.status = d1.action.status

(* The header maps of the two sides of a merge, kept side first.           *)
KeptSide == IF merge_kept_side(d1, d2) = 1 THEN d1 ELSE d2

ThrownSide == IF merge_kept_side(d1, d2) = 1 THEN d2 ELSE d1

(* C5: when the kept action is Monitor and the thrown decision carries     *)
(* headers, the result's headers are the union of both maps and a name in  *)
(* both keeps the kept decision's value; when the kept action is not       *)
(* Monitor its headers are returned unchanged.                             *)
C5_MonitorHeaderMerge ==
    (call = "merge_decisions" /\ IsSome(KeptSide.maction)) =>
        LET ka == Unwrap(KeptSide.maction)
            res == Unwrap(kept.maction).headers
        IN  /\ ka.atype # "Monitor" => res = ka.headers
            /\ (/\ ka.atype = "Monitor"
                /\ IsSome(ThrownSide.maction)
                /\ IsSome(Unwrap(ThrownSide.maction).headers)) =>
                LET th == Unwrap(Unwrap(ThrownSide.maction).headers)
                    kh == IF IsSome(ka.headers) THEN Unwrap(ka.headers)
                          ELSE EmptyMap
                IN  /\ IsSome(res)
                    /\ Keys(Unwrap(res)) = Keys(kh) \cup Keys(th)
                    /\ \A n \in Keys(kh) : Unwrap(res)[n] = kh[n]
                    /\ \A n \in Keys(th) \ Keys(kh) : Unwrap(res)[n] = th[n]

BothMonitor ==
    /\ IsStronger /\ BothActions
    /\ d1.action.atype = Monitor /\ d2.action.atype = Monitor

HeaderNames(h) == IF IsSome(h) THEN Keys(Unwrap(h)) ELSE {}

(* stronger_decision on two Monitor actions returns a Monitor action whose *)
(* header templates carry every name of either side, None only when both   *)
(* sides have None.                                                        *)
MonitorHeadersUnion ==
    BothMonitor =>
        /\ kept.kind = "Action"
        /\ kept.action.atype = Monitor
        /\ HeaderNames(kept.action.headers)
             = HeaderNames(d1.action.headers) \cup HeaderNames(d2.action.headers)
        /\ IsSome(kept.action.headers)
             = (IsSome(d1.action.headers) \/ IsSome(d2.action.headers))

(* tag_request has returned from a run over sections that all carry a      *)
(* Monitor action.                                                         *)
MonitorSectionsDone ==
    /\ call = "tag_request"
    /\ pc = "done"
    /\ Len(globalfilters) = 2
    /\ \A i \in 1..2 :
        /\ IsSome(globalfilters[i].action)
        /\ Unwrap(globalfilters[i].action).atype = Monitor

(* C6 as stated: stronger_decision unions the header templates of two      *)
(* Monitor actions, and two matching Monitor sections with distinct header *)
(* templates end in one decision whose headers are the union of both.      *)
C6_MonitorSectionsMergeHeaders ==
    /\ MonitorHeadersUnion
    /\ (MonitorSectionsDone /\ nmatched = 2) =>
        /\ kept.kind = "Action"
        /\ HeaderNames(kept.action.headers)
             = HeaderNames(Unwrap(globalfilters[1].action).headers)
                 \cup HeaderNames(Unwrap(globalfilters[2].action).headers)

(* C6, amended: stronger_decision unions the header templates of two       *)
(* Monitor actions; in tag_request a matching Monitor section does not end *)
(* the scan and builds no decision: every section is scanned and the       *)
(* decision is Pass, with no action and no headers.                        *)
C6_MonitorSectionsTagOnly ==
    /\ MonitorHeadersUnion
    /\ MonitorSectionsDone =>
        /\ kept = SimpleDecision_Pass
        /\ isection = Len(globalfilters) + 1

(* Two Monitor sections with the header templates h1 and h2 both matched.  *)
C6_Witness ==
    /\ MonitorSectionsDone
    /\ nmatched = 2
    /\ HeaderNames(Unwrap(globalfilters[1].action).headers) = {"h1"}
    /\ HeaderNames(Unwrap(globalfilters[2].action).headers) = {"h2"}
    /\ Keys(globalfilters[1].tags) # Keys(globalfilters[2].tags)

(* C7 as stated: Skip=9, Custom / Block=8, Challenge=6, Monitor=1 in both  *)
(* SimpleActionT::priority and ActionType::priority.                       *)
C7_PriorityConstantsAsStated ==
    /\ (IsStronger /\ d1.kind = "Action") =>
        SimpleActionT_priority(d1.action.atype) =
            CASE d1.action.atype.t = "Skip" -> 9
              [] d1.action.atype.t = "Custom" -> 8
              [] d1.action.atype.t = "Challenge" -> 6
              [] d1.action.atype.t = "Monitor" -> 1
    /\ (call = "merge_decisions" /\ IsSome(d1.maction)) =>
        ActionType_priority(Unwrap(d1.maction).atype) =
            CASE Unwrap(d1.maction).atype = "Skip" -> 9
              [] Unwrap(d1.maction).atype = "Block" -> 8
              [] Unwrap(d1.maction).atype = "Monitor" -> 1

(* C7, amended: SimpleActionT::priority is Skip=9, Custom=8, Challenge=6,  *)
(* Monitor=1; ActionType::priority is Skip=9, Block=6, Monitor=1.          *)
C7_PriorityConstants ==
    /\ (IsStronger /\ d1.kind = "Action") =>
        SimpleActionT_priority(d1.action.atype) =
            CASE d1.action.atype.t = "Skip" -> 9
              [] d1.action.atype.t = "Custom" -> 8
              [] d1.action.atype.t = "Challenge" -> 6
              [] d1.action.atype.t = "Monitor" -> 1
    /\ (call = "merge_decisions" /\ IsSome(d1.maction)) =>
        ActionType_priority(Unwrap(d1.maction).atype) =
            CASE Unwrap(d1.maction).atype = "Skip" -> 9
              [] Unwrap(d1.maction).atype = "Block" -> 6
              [] Unwrap(d1.maction).atype = "Monitor" -> 1

(* A resolved Block action is merged with a Skip action and loses.         *)
C7_Witness ==
    /\ call = "merge_decisions"
    /\ IsSome(d1.maction) /\ IsSome(d2.maction)
    /\ Unwrap(d1.maction).atype = "Block"
    /\ Unwrap(d2.maction).atype = "Skip"
    /\ kept.maction = d2.maction

(* C8: rate_limit_priority gives Skip 0 and every other action its general *)
(* priority, so under it a Skip is strictly below any competing Custom,    *)
(* Challenge or Monitor action.                                            *)
C8_RateLimitPriority ==
    (IsStronger /\ BothActions) =>
        /\ d1.action.atype = Skip => rate_limit_priority(d1.action.atype) = 0
        /\ d1.action.atype # Skip =>
            /\ rate_limit_priority(d1.action.atype)
                 = SimpleActionT_priority(d1.action.atype)
            /\ rate_limit_priority(d1.action.atype) \in {8, 6, 1}
        /\ (d1.action.atype = Skip /\ d2.action.atype # Skip) =>
            rate_limit_priority(d1.action.atype)
                < rate_limit_priority(d2.action.atype)

(* A Skip competes with a Monitor, which the general table ranks below it. *)
C8_Witness ==
    /\ IsStronger /\ BothActions
    /\ d1.action.atype = Skip
    /\ d2.action.atype = Monitor
    /\ SimpleActionT_priority(d1.action.atype)
         > SimpleActionT_priority(d2.action.atype)
    /\ kept.action = d1.action

-----------------------------------------------------------------------------
(* Properties of the filter checks.                                        *)

Reverse(seq) == [i \in DOMAIN seq |-> seq[Len(seq) + 1 - i]]

(* The children of the node checked, and the result of each.               *)
Children ==
    IF call = "check_subsection" THEN checked.entries ELSE checked.sections

ChildResult(c) ==
    IF call = "check_subsection" THEN check_entry(reqinfo, tags, c)
    ELSE check_subsection(reqinfo, tags, c)

(* The node checked with its children in the opposite order.               *)
ReversedResult ==
    IF call = "check_subsection"
    THEN check_subsection(reqinfo, tags,
                          [checked EXCEPT !.entries = Reverse(checked.entries)])
    ELSE check_section(reqinfo, tags,
                       [checked EXCEPT !.sections = Reverse(checked.sections)])

(* C9: at both levels check_relation gives, under And, the conjunction of  *)
(* the children's outcomes (true for no child) and, under Or, their        *)
(* disjunction (false for no child); the outcome does not depend on the    *)
(* order of the children, and every child is evaluated: the locations of   *)
(* all of them are collected.                                              *)
C9_RelationSemantics ==
    call \in {"check_subsection", "check_section"} =>
        /\ checked.relation = "And" =>
            mtch.matching
              = (\A i \in DOMAIN Children : ChildResult(Children[i]).matching)
        /\ checked.relation = "Or" =>
            mtch.matching
              = (\E i \in DOMAIN Children : ChildResult(Children[i]).matching)
        /\ Children = <<>> => mtch.matching = (checked.relation = "And")
        /\ ReversedResult.matching = mtch.matching
        /\ mtch.matched
             = UNION {ChildResult(Children[i]).matched : i \in DOMAIN Children}

(* An Or over two leaves whose first does not match and whose second does, *)
(* the second contributing a location.                                     *)
C9_Witness ==
    /\ call = "check_subsection"
    /\ checked.relation = "Or"
    /\ Len(checked.entries) = 2
    /\ ~check_entry(reqinfo, tags, checked.entries[1]).matching
    /\ check_entry(reqinfo, tags, checked.entries[2]).matching
    /\ check_entry(reqinfo, tags, checked.entries[2]).matched # {}
    /\ mtch.matching

(* C10: the outcome of check_entry is the raw predicate's result inverted  *)
(* exactly when the leaf is negated; a negated leaf whose predicate does   *)
(* not match gives matching = true with an empty set of locations.         *)
C10_LeafNegation ==
    call = "check_entry" =>
        LET raw == IsSome(entry_predicate(reqinfo, tags, checked))
        IN  /\ mtch.matching = (raw # checked.negated)
            /\ (checked.negated /\ ~raw) =>
                (mtch.matching /\ mtch.matched = {})

(* A negated Ip leaf for an address that is not the request's.             *)
C10_Witness ==
    /\ call = "check_entry"
    /\ checked.negated
    /\ checked.kind = "Ip"
    /\ IsSome(reqinfo.ip)
    /\ Unwrap(reqinfo.ip) # checked.entry
    /\ mtch.matching
    /\ mtch.matched = {}

(* C11: a negated leaf never presents evidence: check_entry returns an     *)
(* empty set of locations for it whether or not its predicate matched, so  *)
(* the locations of a matching subsection come from no negated leaf.       *)
C11_NegatedNoEvidence ==
    /\ (call = "check_entry" /\ checked.negated) => mtch.matched = {}
    /\ (call = "check_subsection" /\ mtch.matching) =>
        mtch.matched
          = UNION { check_entry(reqinfo, tags, checked.entries[i]).matched :
                      i \in {j \in DOMAIN checked.entries :
                                ~checked.entries[j].negated} }

-----------------------------------------------------------------------------
(* Properties of tag_request.                                              *)

InTagRequest == call = "tag_request"

(* The section enforces its action on the request: it matched with result  *)
(* m and its action is neither Monitor nor Challenge for a human.          *)
Enforcing(sec, m) ==
    /\ m.matching
    /\ IsSome(sec.action)
    /\ Unwrap(sec.action).atype # Monitor
    /\ ~(Unwrap(sec.action).atype.t = "Challenge" /\ is_human)

(* The tags declared by the sections 1..n.                                 *)
DeclaredUpTo(n) ==
    UNION {Keys(globalfilters[i].tags) : i \in 1..n}

(* C12: tag_request scans the sections in order and goes past a section    *)
(* only when it does not enforce; at the first enforcing section it        *)
(* returns that section's action with exactly one global filter reason of  *)
(* the section's id and name, and no later section is evaluated: their     *)
(* tags are absent and the counter of matching sections excludes them.     *)
C12_ShortCircuit ==
    InTagRequest =>
        /\ pc = "loop" => kept = SimpleDecision_Pass
        /\ (isection > 1 /\ kept = SimpleDecision_Pass) =>
            /\ checked = globalfilters[isection - 1]
            /\ ~Enforcing(checked, mtch)
        /\ kept # SimpleDecision_Pass =>
            /\ pc = "done"
            /\ checked = globalfilters[isection]
            /\ Enforcing(checked, mtch)
            /\ kept.kind = "Action"
            /\ kept.action = Unwrap(checked.action)
            /\ kept.reasons
                 = <<BlockReason_global_filter(checked.id, checked.name)>>
            /\ nmatched <= isection
            /\ \A j \in (isection + 1)..Len(globalfilters) :
                \A t \in Keys(globalfilters[j].tags) :
                    Tags_contains(tags, t) => t \in DeclaredUpTo(isection)

(* The first of two sections enforces a Custom action; the second would    *)
(* match any request and declares another tag.                             *)
C12_Witness ==
    /\ InTagRequest
    /\ pc = "done"
    /\ Len(globalfilters) = 2
    /\ isection = 1
    /\ kept.kind = "Action"
    /\ kept.action.atype = Custom("blocked")
    /\ globalfilters[2].sections = <<>>
    /\ globalfilters[2].relation = "And"
    /\ Keys(globalfilters[2].tags) # Keys(globalfilters[1].tags)
    /\ nmatched = 1

(* The section's action leaves a matching request to the later sections:   *)
(* none, Monitor, or Challenge for a human.                                *)
TagOnlyAction(sec) ==
    \/ ~IsSome(sec.action)
    \/ Unwrap(sec.action).atype = Monitor
    \/ Unwrap(sec.action).atype.t = "Challenge" /\ is_human

(* One iteration over a section that does not enforce: a matching section  *)
(* attaches its declared tags, each with the section's matched locations,  *)
(* a section that does not match changes no tag, and the scan goes on,     *)
(* returning Pass after the last section.                                  *)
TagOnlyStep ==
    (InTagRequest /\ pc = "loop") =>
        LET sec == globalfilters[isection]
            m == check_section(reqinfo, tags, sec)
        IN  /\ (m.matching /\ TagOnlyAction(sec)) =>
                /\ kept' = SimpleDecision_Pass
                /\ isection' = isection + 1
                /\ nmatched' = nmatched + 1
                /\ Keys(tags') = Keys(tags) \cup Keys(sec.tags)
                /\ \A t \in Keys(tags) \ Keys(sec.tags) : tags'[t] = tags[t]
                /\ \A t \in Keys(sec.tags) :
                    /\ m.matched \subseteq tags'[t]
                    /\ ~Tags_contains(tags, t) => tags'[t] = m.matched
                /\ pc' = IF isection = Len(globalfilters) THEN "done" ELSE "loop"
            /\ ~m.matching =>
                /\ kept' = SimpleDecision_Pass
                /\ isection' = isection + 1
                /\ nmatched' = nmatched
                /\ tags' = tags
                /\ pc' = IF isection = Len(globalfilters) THEN "done" ELSE "loop"

(* C13: a matching section whose action is Monitor, Challenge for a human, *)
(* or absent only attaches its tags and the scan continues; when no        *)
(* section enforces, tag_request returns Pass and the tags are the         *)
(* baseline tags plus the declared tags of every matching section, each    *)
(* with that section's matched locations.                                  *)
C13_TagOnlySections ==
    /\ [](InTagRequest =>
            /\ \A t \in Keys(baseline_tags(is_human, reqinfo)) :
                  Tags_contains(tags, t)
            /\ (pc = "done" /\ kept = SimpleDecision_Pass) =>
                  isection = Len(globalfilters) + 1)
    /\ [][TagOnlyStep]_vars

(* A Monitor section and a Challenge section both matched a human's        *)
(* request, and tag_request returned Pass with both tags set.              *)
C13_Witness ==
    /\ InTagRequest
    /\ pc = "done"
    /\ is_human
    /\ Len(globalfilters) = 2
    /\ IsSome(globalfilters[1].action) /\ IsSome(globalfilters[2].action)
    /\ Unwrap(globalfilters[1].action).atype = Monitor
    /\ Unwrap(globalfilters[2].action).atype = Challenge("Active")
    /\ nmatched = 2
    /\ kept = SimpleDecision_Pass
    /\ Tags_contains(tags, "ta") /\ Tags_contains(tags, "tb")
    /\ Tags_contains(tags, "human")

-----------------------------------------------------------------------------
(* Properties of to_decision.                                              *)

IsToDecision == call \in {"to_decision", "tag_request_to_decision"}

(* C14: when a request matches a filter section whose action is Custom,    *)
(* tag_request followed by to_decision gives a blocking decision: type     *)
(* Block, block_mode true, the configured content and status, and exactly  *)
(* one reason, whose initiator is the global filter.                       *)
C14_GlobalFilterBlocks ==
    (call = "tag_request_to_decision" /\ self.atype.t = "Custom") =>
        /\ mtch.matching
        /\ self = Unwrap(checked.action)
        /\ IsSome(kept.maction)
        /\ Decision_is_blocking(kept)
        /\ Unwrap(kept.maction).atype = "Block"
        /\ Unwrap(kept.maction).block_mode
        /\ Unwrap(kept.maction).content = self.atype.content
        /\ Unwrap(kept.maction).status = self.status
        /\ Len(kept.reasons) = 1
        /\ kept.reasons[1].initiator = "GlobalFilter"
        /\ kept.reasons[1].id = checked.id

(* The curl request meets the section of one Header leaf on user-agent     *)
(* under And whose action is Custom with content "blocked".                *)
C14_Witness ==
    /\ call = "tag_request_to_decision"
    /\ reqinfo = ReqCurl
    /\ checked.relation = "And"
    /\ checked.sections = <<GlobalFilterSSection("And", <<EntryCurl>>)>>
    /\ self.atype = Custom("blocked")
    /\ IsSome(kept.maction)
    /\ Unwrap(kept.maction).content = "blocked"

(* The precision the challenge of self asks for is there: the human signal *)
(* for Active and Passive, the interactive signal for Interactive.         *)
PrecisionMet ==
    \/ self.atype.ch_level \in {"Active", "Passive"} /\ precision_level.human
    \/ self.atype.ch_level = "Interactive" /\ precision_level.interactive

IsChallenge == IsToDecision /\ self.atype.t = "Challenge"

(* C15: a Challenge whose precision requirement is unmet, with no          *)
(* challenge capability, resolves to the default blocking action (Block,   *)
(* block_mode true, status 503, content "request denied", no headers)      *)
(* whatever status and headers the action configures, with the input       *)
(* reasons unchanged.                                                      *)
C15_ChallengeFallback ==
    (IsChallenge /\ ~PrecisionMet /\ mgh = None) =>
        /\ kept.maction
             = Some([atype |-> "Block", block_mode |-> TRUE, status |-> 503,
                     headers |-> None, content |-> "request denied",
                     extra_tags |-> None])
        /\ kept.reasons = d1.reasons

(* An Interactive challenge with status 403 and a header, for a request    *)
(* known human but not interactive, with one reason.                       *)
C15_Witness ==
    /\ call = "to_decision"
    /\ self.atype = Challenge("Interactive")
    /\ precision_level = PrecisionLevel(TRUE, FALSE)
    /\ mgh = None
    /\ self.status = 403
    /\ IsSome(self.headers)
    /\ Len(d1.reasons) = 1
    /\ Decision_is_blocking(kept)

(* C16: a Challenge resolves to a non-blocking decision exactly when its   *)
(* precision requirement is met; then the action is Monitor with status    *)
(* 200 and block_mode false and every input reason is kept, marked         *)
(* inactive; when unmet no Monitor decision is produced and the reasons    *)
(* are handed on unmodified.                                               *)
C16_ChallengeGating ==
    IsChallenge =>
        /\ IsSome(kept.maction)
        /\ Decision_is_blocking(kept) = ~PrecisionMet
        /\ PrecisionMet =>
            /\ Unwrap(kept.maction).atype = "Monitor"
            /\ Unwrap(kept.maction).status = 200
            /\ ~Unwrap(kept.maction).block_mode
            /\ Len(kept.reasons) = Len(d1.reasons)
            /\ \A i \in DOMAIN d1.reasons :
                /\ kept.reasons[i].id = d1.reasons[i].id
                /\ kept.reasons[i].initiator = d1.reasons[i].initiator
                /\ kept.reasons[i].action = "Inactive"
        /\ ~PrecisionMet =>
            /\ Unwrap(kept.maction).atype # "Monitor"
            /\ kept.reasons = d1.reasons

(* An Active challenge with status 403 for a human's request, with one     *)
(* reason.                                                                 *)
C16_Witness ==
    /\ call = "to_decision"
    /\ self.atype = Challenge("Active")
    /\ self.status = 403
    /\ precision_level = PrecisionLevel(TRUE, FALSE)
    /\ Len(d1.reasons) = 1
    /\ IsSome(kept.maction)
    /\ Unwrap(kept.maction).status = 200

(* C17: to_decision on a Skip action returns a decision with no action,    *)
(* not blocking, whose reasons are the input reasons in the same order,    *)
(* after setting each extra tag of the action at Location::Request.        *)
C17_SkipResolution ==
    (IsToDecision /\ self.atype = Skip) =>
        /\ kept.maction = None
        /\ ~Decision_is_blocking(kept)
        /\ kept.reasons = d1.reasons
        /\ IsSome(self.extra_tags) =>
            \A t \in Unwrap(self.extra_tags) :
                /\ Tags_contains(tags, t)
                /\ Location_Request \in tags[t]

(* A Skip action with a header template, an extra tag and one reason.      *)
C17_Witness ==
    /\ call = "to_decision"
    /\ self.atype = Skip
    /\ IsSome(self.headers)
    /\ self.extra_tags = Some({"extra"})
    /\ Len(d1.reasons) = 1
    /\ Tags_contains(tags, "extra")
    /\ kept.maction = None

-----------------------------------------------------------------------------
(* Properties of the configuration.                                        *)

(* C18: resolve maps the raw types Skip, Monitor, Custom, Challenge and    *)
(* Ichallenge to Skip, Monitor, Custom, Challenge Active and Challenge     *)
(* Interactive; a Custom raw action with no content resolves to the        *)
(* content "blocked", a missing status to 503 and an empty tag list to no  *)
(* extra tags.                                                             *)
C18_ResolveDefaults ==
    call = "resolve" =>
        /\ rawaction.type_ = "Skip" => self.atype = Skip
        /\ rawaction.type_ = "Monitor" => self.atype = Monitor
        /\ rawaction.type_ = "Custom" => self.atype.t = "Custom"
        /\ rawaction.type_ = "Challenge" => self.atype = Challenge("Active")
        /\ rawaction.type_ = "Ichallenge" => self.atype = Challenge("Interactive")
        /\ (rawaction.type_ = "Custom" /\ rawaction.params.content = None) =>
            self.atype = Custom("blocked")
        /\ rawaction.params.status = None => self.status = 503
        /\ rawaction.tags = {} => self.extra_tags = None

(* The patterns of a section all compile: the pattern of every name and of *)
(* every regex rule is absent, empty or a regex, and the key of every      *)
(* regex rule is a regex.                                                  *)
PatternCompiles(reg) ==
    IsSome(reg) /\ Unwrap(reg) # "" => Unwrap(reg) \notin {"(", "[a"}

SectionCompiles(props) ==
    /\ \A i \in DOMAIN props.names : PatternCompiles(props.names[i].reg)
    /\ \A i \in DOMAIN props.regex :
        /\ PatternCompiles(props.regex[i].reg)
        /\ props.regex[i].key \notin {"(", "[a"}

ProfileCompiles(rp) ==
    /\ SectionCompiles(rp.headers)
    /\ SectionCompiles(rp.cookies)
    /\ SectionCompiles(rp.args)
    /\ SectionCompiles(rp.path)

(* The section made of a raw section has all its entries: a name entry for *)
(* every raw name, with no regex where the raw pattern is absent or empty, *)
(* and a regex rule for every raw regex rule.                              *)
SectionComplete(sec, props) ==
    /\ Keys(sec.names) = {props.names[i].key : i \in DOMAIN props.names}
    /\ \A i \in DOMAIN props.names :
        (props.names[i].reg \in {None, Some("")}) =>
            sec.names[props.names[i].key].reg = None
    /\ Len(sec.regex) = Len(props.regex)

(* C19: after WafProfile::resolve the map has a profile of id X exactly    *)
(* when a raw profile of id X has only patterns that compile; the profile  *)
(* of X is the whole conversion of the last such raw profile, so that a    *)
(* failing raw profile is never partially applied and changes no other     *)
(* profile; one error is logged for each failing raw profile; an empty     *)
(* pattern is no failure and gives an entry with no regex.                 *)
C19_PerProfileAcceptance ==
    call = "waf_resolve" =>
        /\ Keys(waf_out) =
               {waf_raw[i].id : i \in {j \in DOMAIN waf_raw :
                                          ProfileCompiles(waf_raw[j])}}
        /\ Len(logs) =
               Cardinality({i \in DOMAIN waf_raw : ~ProfileCompiles(waf_raw[i])})
        /\ \A i \in DOMAIN waf_raw :
            (/\ ProfileCompiles(waf_raw[i])
             /\ \A j \in DOMAIN waf_raw :
                    (j > i /\ waf_raw[j].id = waf_raw[i].id) =>
                        ~ProfileCompiles(waf_raw[j])) =>
                /\ waf_out[waf_raw[i].id].name = waf_raw[i].name
                /\ SectionComplete(waf_out[waf_raw[i].id].sections.headers,
                                   waf_raw[i].headers)
                /\ SectionComplete(waf_out[waf_raw[i].id].sections.cookies,
                                   waf_raw[i].cookies)
                /\ SectionComplete(waf_out[waf_raw[i].id].sections.args,
                                   waf_raw[i].args)
                /\ SectionComplete(waf_out[waf_raw[i].id].sections.path,
                                   waf_raw[i].path)
        /\ waf_out =
               WafProfile_resolve(<<>>, SelectSeq(waf_raw, ProfileCompiles)).out

(* A good profile p1 with an empty pattern, then a profile p2 whose third  *)
(* section fails after two good ones: only p1 is in the map, with its      *)
(* empty pattern as no regex, and one error is logged.                     *)
C19_Witness ==
    /\ call = "waf_resolve"
    /\ Len(waf_raw) = 2
    /\ waf_raw[1].id = "p1"
    /\ waf_raw[1].name = "good"
    /\ waf_raw[2].id = "p2"
    /\ waf_raw[2].name = "bad args"
    /\ Keys(waf_out) = {"p1"}
    /\ waf_out["p1"].sections.headers.names["n2"].reg = None
    /\ Len(logs) = 1

-----------------------------------------------------------------------------
(* Properties of the audit record.                                         *)

(* The decision logged has a Monitor action.                               *)
LoggedMonitor == IsSome(kept.maction) /\ Unwrap(kept.maction).atype = "Monitor"

(* The response code known to jsonlog: the one given, else the status of   *)
(* the proxy when it is a number.                                          *)
KnownCode ==
    IF rcode # None THEN rcode
    ELSE IF "status" \in DOMAIN proxy /\ proxy["status"] = "404" THEN Some(404)
    ELSE None

(* The synthetic tags of a response code.                                  *)
StatusTagsOf(code) ==
    CASE code = 200 -> {"status:200", "status-class:2xx"}
      [] code = 404 -> {"status:404", "status-class:4xx"}
      [] code = 503 -> {"status:503", "status-class:5xx"}

AllStatusTags == StatusTagsOf(200) \cup StatusTagsOf(404) \cup StatusTagsOf(503)

(* C20: the record of jsonlog is the JSON null when there is no request or *)
(* the serializer fails; otherwise its tags hold status:<code> and         *)
(* status-class:<n>xx exactly when a response code is known and the        *)
(* action is not Monitor, they hold neither for a Monitor action, and      *)
(* response_code is the known code in both cases.                          *)
C20_AuditTags ==
    call = "jsonlog" =>
        /\ (mrinfo = None \/ serfail) => request_map = Json_null
        /\ ~(mrinfo = None \/ serfail) =>
            /\ request_map.json = "object"
            /\ request_map.entries.response_code = KnownCode
            /\ (KnownCode # None /\ ~LoggedMonitor) =>
                   request_map.entries.tags \cap AllStatusTags =
                       StatusTagsOf(Unwrap(KnownCode))
            /\ (KnownCode = None \/ LoggedMonitor) =>
                   request_map.entries.tags \cap AllStatusTags = {}
            /\ Keys(tags) \subseteq request_map.entries.tags

(* The record of a Monitor decision with the response code 200: the code   *)
(* is reported and the tags have no status tag.                            *)
C20_Witness ==
    /\ call = "jsonlog"
    /\ LoggedMonitor
    /\ mrinfo # None
    /\ ~serfail
    /\ rcode = Some(200)
    /\ request_map.json = "object"
    /\ request_map.entries.response_code = Some(200)
    /\ "status:200" \notin request_map.entries.tags
    /\ Tags_contains(tags, "ta")

-----------------------------------------------------------------------------
(* Properties of the IP-range optimization.                                *)

(* The samples of tests::ipranges_simple, ipranges_intersected,            *)
(* ipranges_simple_substraction and ipranges_simple_union that are in the  *)
(* model: relation, entries, address, expected result.                     *)
Plain(net) == GlobalFilterEntry(FALSE, "Network", net)

Not(net) == GlobalFilterEntry(TRUE, "Network", net)

IprangeTests ==
    { <<"And", <<Plain(Net_168_1_24)>>, 0, FALSE>>,
      <<"And", <<Plain(Net_168_1_24)>>, 5, FALSE>>,
      <<"And", <<Plain(Net_168_1_24)>>, 6, TRUE>>,
      <<"And", <<Plain(Net_168_1_24)>>, 12, FALSE>>,
      <<"And", <<Plain(Net_168_0_23), Plain(Net_168_1_24)>>, 0, FALSE>>,
      <<"And", <<Plain(Net_168_0_23), Plain(Net_168_1_24)>>, 5, FALSE>>,
      <<"And", <<Plain(Net_168_0_23), Plain(Net_168_1_24)>>, 6, TRUE>>,
      <<"And", <<Plain(Net_168_0_23), Plain(Net_168_1_24)>>, 12, FALSE>>,
      <<"And", <<Plain(Net_168_0_23), Not(Net_168_1_24)>>, 0, FALSE>>,
      <<"And", <<Plain(Net_168_0_23), Not(Net_168_1_24)>>, 5, TRUE>>,
      <<"And", <<Plain(Net_168_0_23), Not(Net_168_1_24)>>, 6, FALSE>>,
      <<"And", <<Plain(Net_168_0_23), Not(Net_168_1_24)>>, 12, FALSE>>,
      <<"Or", <<Plain(Net_168_0_24), Plain(Net_168_1_24)>>, 0, FALSE>>,
      <<"Or", <<Plain(Net_168_0_24), Plain(Net_168_1_24)>>, 5, TRUE>>,
      <<"Or", <<Plain(Net_168_0_24), Plain(Net_168_1_24)>>, 6, TRUE>>,
      <<"Or", <<Plain(Net_168_0_24), Plain(Net_168_1_24)>>, 12, FALSE>> }

(* C21: for every subsection of plain or negated Network entries under And *)
(* or Or and every address, check_subsection on the optimized entries      *)
(* gives the same matching as on the original entries; on the samples of   *)
(* the tests both give the expected result, so that 192.168.0.0/23 less    *)
(* 192.168.1.0/24 matches 192.168.0.23 and neither 192.168.1.23 nor        *)
(* 10.0.4.1.                                                               *)
C21_IprangeEquivalence ==
    call = "check_iprange" =>
        /\ mtch_opt.matching = mtch.matching
        /\ optimized.relation = checked.relation
        /\ \A t \in IprangeTests :
            (/\ checked.relation = t[1]
             /\ checked.entries = t[2]
             /\ reqinfo.ip = Some(IpAddr("V4", t[3]))) =>
                (mtch.matching = t[4] /\ mtch_opt.matching = t[4])

(* The subtraction of the tests on 192.168.0.23: both forms match, and the *)
(* optimized form is one range.                                            *)
C21_Witness ==
    /\ call = "check_iprange"
    /\ checked.relation = "And"
    /\ checked.entries = <<Plain(Net_168_0_23), Not(Net_168_1_24)>>
    /\ reqinfo.ip = Some(IpAddr("V4", 5))
    /\ Len(optimized.entries) = 1
    /\ optimized.entries[1].kind = "Range4"
    /\ mtch.matching
    /\ mtch_opt.matching

-----------------------------------------------------------------------------
(* Properties of the tags seen during the scan of tag_request.             *)

(* The tags a section of the scan can see: the baseline tags and the tags  *)
(* declared by the sections that matched before it.                        *)
SeenTags ==
    Keys(baseline_tags(is_human, reqinfo))
        \cup UNION {Keys(globalfilters[i].tags) : i \in matched_sections}

(* The Tag leaves of a section.                                            *)
TagLeaves(sec) ==
    UNION { {sec.sections[i].entries[j] :
                j \in {k \in DOMAIN sec.sections[i].entries :
                          sec.sections[i].entries[k].kind = "Tag"}} :
            i \in DOMAIN sec.sections }

(* The section is one plain Tag leaf.                                      *)
IsTagSection(sec) ==
    /\ Len(sec.sections) = 1
    /\ Len(sec.sections[1].entries) = 1
    /\ sec.sections[1].entries[1].kind = "Tag"
    /\ ~sec.sections[1].entries[1].negated

(* One iteration of the scan, on section isection: every Tag leaf of the   *)
(* section matches exactly when its tag is a baseline tag or the tag of an *)
(* earlier matching section, and then with all the locations of the tag;   *)
(* a section that is one Tag leaf matches with it; no tag and no location  *)
(* is removed.                                                             *)
TagLeafStep ==
    (call = "tag_request" /\ pc = "loop" /\ call' = "tag_request") =>
        /\ \A e \in TagLeaves(globalfilters[isection]) :
            /\ check_entry(reqinfo, tags, e).matching =
                   ((e.entry.exact \in SeenTags) # e.negated)
            /\ e.entry.exact \in SeenTags =>
                   check_entry(reqinfo, tags, e).matched = tags[e.entry.exact]
        /\ IsTagSection(globalfilters[isection]) =>
            /\ mtch'.matching =
                   (globalfilters[isection].sections[1].entries[1].entry.exact
                        \in SeenTags)
            /\ mtch'.matching =>
                   mtch'.matched =
                       tags[globalfilters[isection].sections[1].entries[1].entry.exact]
        /\ \A t \in Keys(tags) : t \in Keys(tags') /\ tags[t] \subseteq tags'[t]

(* C23: during tag_request the tags are the baseline tags and the tags of  *)
(* the sections that matched so far, all of them before the section the    *)
(* scan is at; a Tag leaf of section j matches exactly when its tag is     *)
(* among them, never by the tag of section j itself or of a later section, *)
(* and contributes all the locations recorded for the tag; tags are only   *)
(* added.                                                                  *)
C23_TagLeavesSeeEarlier ==
    /\ [](call = "tag_request" =>
            /\ Keys(tags) = SeenTags
            /\ Cardinality(matched_sections) = nmatched
            /\ \A i \in matched_sections :
                  i < isection \/ (pc = "done" /\ i = isection))
    /\ [][TagLeafStep]_vars

(* Section 1 matched the curl request and set the tag ta with the header   *)
(* as its location; section 2, one Tag leaf on ta that declares tb,        *)
(* matched with that location; a section on tb first would not match.      *)
C23_Witness ==
    /\ call = "tag_request"
    /\ Len(globalfilters) = 2
    /\ matched_sections = {1, 2}
    /\ IsTagSection(globalfilters[2])
    /\ globalfilters[2].sections[1].entries[1].entry.exact = "ta"
    /\ Keys(globalfilters[1].tags) = {"ta"}
    /\ Keys(globalfilters[2].tags) = {"tb"}
    /\ checked = globalfilters[2]
    /\ mtch.matching
    /\ mtch.matched # {}
    /\ mtch.matched = tags["ta"]
    /\ tags["tb"] = tags["ta"]

-----------------------------------------------------------------------------
(* Properties of stronger_decision against merge_decisions.                *)

(* C24: for two simple decisions with actions among Skip, Monitor, Custom  *)
(* and Challenge, to_decision on each (no challenge capability) followed   *)
(* by merge_decisions keeps the action of the same argument and gives the  *)
(* same action as stronger_decision followed by to_decision.               *)
C24_StrongerIsMergeBefore ==
    call = "resolve_both_ways" => via_merge.maction = via_stronger.maction

-----------------------------------------------------------------------------
(* Properties of the resolved actions.                                     *)

(* The action of a decision, if any, is consistent: block_mode is set      *)
(* exactly for Block, Monitor has status 200, the type is not Skip; the    *)
(* decision is blocking exactly when its action is Block.                  *)
ConsistentDecision(d) ==
    /\ IsSome(d.maction) =>
        /\ Unwrap(d.maction).block_mode = (Unwrap(d.maction).atype = "Block")
        /\ Unwrap(d.maction).atype = "Monitor" => Unwrap(d.maction).status = 200
        /\ Unwrap(d.maction).atype # "Skip"
    /\ Decision_is_blocking(d) =
           (IsSome(d.maction) /\ Unwrap(d.maction).atype = "Block")

(* C25: the decision to_decision returns without a challenge capability,   *)
(* and every decision merged from such decisions, is consistent; a Skip    *)
(* simple action resolves to a decision with no action.                    *)
C25_ResolvedActionsConsistent ==
    /\ (call \in {"to_decision", "tag_request_to_decision", "merge_resolved"}
            /\ mgh = None) =>
           ConsistentDecision(kept)
    /\ (call \in {"to_decision", "tag_request_to_decision"}
            /\ mgh = None /\ self.atype = Skip) =>
           kept.maction = None
    /\ call = "resolve_both_ways" =>
           ConsistentDecision(via_merge) /\ ConsistentDecision(via_stronger)

(* A human's Active challenge resolved to Monitor with status 200, then    *)
(* merged with two more decisions of the request, the Monitor action kept. *)
C25_Witness ==
    /\ call = "merge_resolved"
    /\ nmerged = 2
    /\ self.atype = Challenge("Active")
    /\ self.status = 403
    /\ IsSome(kept.maction)
    /\ Unwrap(kept.maction).atype = "Monitor"
    /\ Unwrap(kept.maction).status = 200
    /\ ~Unwrap(kept.maction).block_mode
    /\ IsSome(Unwrap(kept.maction).headers)

-----------------------------------------------------------------------------
(* Properties of concurrent evaluations.                                   *)

(* A step of an evaluation leaves the shared sections as they are and      *)
(* writes the locals of one evaluation only.                               *)
EvaluationStep ==
    call = "evaluate" =>
        /\ snapshot' = snapshot
        /\ \E p \in Evaluators :
              \A q \in Evaluators \ {p} : evals'[q] = evals[q]

(* C22: the evaluations leave the shared filter sections unchanged and     *)
(* each writes only its own Tags and Decision; in every interleaving of    *)
(* two evaluations an evaluation that has ended has the tags and the       *)
(* decision of its request evaluated alone, and two evaluations of the     *)
(* same request end with the same result.                                  *)
C22_NonInterference ==
    /\ [](call = "evaluate" =>
            /\ \A p \in Evaluators :
                evals[p].pos = "done" =>
                    /\ evals[p].tags =
                           evaluate_alone(evals[p].rinfo, evals[p].is_human,
                                          snapshot).tags
                    /\ evals[p].decision =
                           evaluate_alone(evals[p].rinfo, evals[p].is_human,
                                          snapshot).decision
            /\ \A p, q \in Evaluators :
                (/\ evals[p].pos = "done"
                 /\ evals[q].pos = "done"
                 /\ evals[p].rinfo = evals[q].rinfo
                 /\ evals[p].is_human = evals[q].is_human) =>
                    /\ evals[p].tags = evals[q].tags
                    /\ evals[p].decision = evals[q].decision)
    /\ [][EvaluationStep]_vars

(* Two evaluations ended on two sections, the first setting the tag ta on  *)
(* the user agent and the second blocking on ta: the curl request was      *)
(* blocked with both tags, the browser request of a human passed with      *)
(* neither.                                                                *)
C22_Witness ==
    /\ call = "evaluate"
    /\ Len(snapshot) = 2
    /\ evals[1].pos = "done"
    /\ evals[2].pos = "done"
    /\ evals[1].rinfo = ReqCurl
    /\ evals[2].rinfo = ReqBrowser
    /\ evals[2].is_human
    /\ Decision_is_blocking(evals[1].decision)
    /\ evals[2].decision.maction = None
    /\ Tags_contains(evals[1].tags, "ta")
    /\ Tags_contains(evals[1].tags, "tb")
    /\ ~Tags_contains(evals[2].tags, "ta")
    /\ ~Tags_contains(evals[2].tags, "tb")

====
